---- MODULE Spec2Model ----
(***************************************************************************)
(* Model of the time-series store of the candle/anomaly pipeline           *)
(* (src/database.py, class Database) and of the threads that write to it.  *)
(*                                                                         *)
(* The two tables are sets of rows.  The surrogate key "id" (INTEGER       *)
(* PRIMARY KEY AUTOINCREMENT) is not modelled: no statement of the store   *)
(* orders, filters or joins on it other than to name the rows a subquery   *)
(* selected, and a row is identified here by its value.                    *)
(*                                                                         *)
(* Every method is a sequence of steps of the calling thread: taking the   *)
(* lock, the transaction (statement + commit + release), the due-check of  *)
(* maybe_cleanup, the sweep.  time.time() is the variable now, which the   *)
(* action Tick advances between any two steps.                             *)
(***************************************************************************)
EXTENDS Integers, Sequences, FiniteSets, TLC

----------------------------------------------------------------------------
(* Program constants *)

SecondsPerHour == 3600
DefaultMaxAgeHours == 24
DefaultCleanupInterval == 3600
DefaultMaxDbSizeMb == 100
BucketSeconds == 900
MsPerSecond == 1000

(* Bounds of the model *)

MaxHours == 2
SmallCap == 1
MaxBuckets == 2
MaxLimit == 2

----------------------------------------------------------------------------
(* Input domains *)

\* Python's None, for an argument that was not given
None == 0 - 1

\* the wall clock when the process first starts: an epoch time, far above
\* every interval of the configuration
BootTime == 2 * DefaultMaxAgeHours * SecondsPerHour

\* the values int(time.time()) takes when it is read
Instants == {BootTime + h * SecondsPerHour : h \in 0..MaxHours}

Symbols == {"ABCUSDT", "XYZUSDT"}

\* bucket starts in epoch seconds (the latest one starts at BootTime)
BucketStarts == {BootTime - k * BucketSeconds : k \in 0..(MaxBuckets - 1)}

OpenTimes == {b * MsPerSecond : b \in BucketStarts}

\* the kline_data dicts the callers pass to insert_kline; the second shape
\* lacks trades_count
KlineDataAt(opens) ==
    UNION {{ [open_time |-> o, close_time |-> o + BucketSeconds * MsPerSecond - 1,
              open_price |-> 100, high_price |-> 101, low_price |-> 99,
              close_price |-> 100, volume |-> 10, quote_volume |-> 1000,
              trades_count |-> 5],
             [open_time |-> o, close_time |-> o + BucketSeconds * MsPerSecond - 1,
              open_price |-> 100, high_price |-> 111, low_price |-> 99,
              close_price |-> 110, volume |-> 30, quote_volume |-> 3000] }
           : o \in opens}

KlineData == KlineDataAt(OpenTimes)

LatestOpenTime == BootTime * MsPerSecond

\* the candle updates of the first shape: every bucket of the first symbol, the
\* latest bucket of the second
FullKlineUpdates ==
    {[symbol |-> "ABCUSDT", kline_data |-> kd] :
        kd \in {d \in KlineData : "trades_count" \in DOMAIN d}}
    \cup {[symbol |-> "XYZUSDT", kline_data |-> kd] :
        kd \in {d \in KlineDataAt({LatestOpenTime}) : "trades_count" \in DOMAIN d}}

\* and, for the latest bucket of the first symbol, the second shape too
KlineUpdates ==
    FullKlineUpdates
    \cup {[symbol |-> "ABCUSDT", kline_data |-> kd] :
        kd \in KlineDataAt({LatestOpenTime})}

\* the anomaly_data dicts passed to insert_anomaly by the sequential client
AnomalyData ==
    {[symbol |-> "ABCUSDT", timestamp |-> BootTime, interval_type |-> "15m",
      anomaly_score |-> 1]}

\* the configurations explored: <<max_age_hours argument of the constructor,
\* auto_cleanup, max_klines_per_symbol>>
RetentionConfigs ==
    {<<None, TRUE, 0>>, <<0, TRUE, SmallCap>>, <<1, TRUE, SmallCap>>,
     <<1, FALSE, SmallCap>>}
FileSizesMb == {1, DefaultMaxDbSizeMb + 1}

\* the anomaly_data dicts of the query scenario: for each symbol the latest
\* bucket in both interval types, for the first symbol every 15m bucket too;
\* two scores
IntervalTypes == {"15m", "1h"}
Scores == {1, 2}
QueryAnomalyData ==
    {[symbol |-> "ABCUSDT", timestamp |-> b, interval_type |-> "15m",
      anomaly_score |-> sc] : b \in BucketStarts, sc \in Scores}
    \cup {[symbol |-> sym, timestamp |-> BootTime, interval_type |-> it,
           anomaly_score |-> sc] :
             sym \in Symbols, it \in IntervalTypes, sc \in Scores}

\* the lookback windows asked for, in hours
QueryHours == {1, DefaultMaxAgeHours}
Limits == 0..MaxLimit

Threads == {"main", "ingest", "score"}
SeqThreads == {"main"}

----------------------------------------------------------------------------
VARIABLES
    klines,             \* table klines
    anomalies,          \* table anomalies
    now,                \* int(time.time())
    db,                 \* the Database object's configuration attributes
    ctor_max_age_hours, \* the max_age_hours argument the constructor was given
    last_cleanup_time,  \* Database.last_cleanup_time
    last_sweep_at,      \* clock value of the last committed sweep (None: never)
    lock,               \* Database.lock: None or the thread holding it
    pc,                 \* per thread: where it is inside a Database method
    loc,                \* per thread: the current (or last) call and its locals
    collector,          \* the BinanceWSCollector object's attributes
    cstack,             \* the collector thread: its stack of positions
    cframe,             \* the collector thread: the locals of its methods
    detector,           \* the AnomalyDetector object and the schedule module
    drun,               \* the detector thread: its position and its locals
    manager             \* the thread that calls stop(): its position

\* the engines' variables: the store's operations leave them alone
engineVars == <<collector, cstack, cframe, detector, drun, manager>>

vars == <<klines, anomalies, now, db, ctor_max_age_hours, last_cleanup_time,
          last_sweep_at, lock, pc, loc, collector, cstack, cframe, detector,
          drun, manager>>

NoLock == "nobody"
NoArg == [none |-> TRUE]

IdleLoc == [op |-> "none", arg |-> NoArg, status |-> "none",
            current_time |-> None, file_size_mb |-> None,
            cutoff |-> None, swept |-> FALSE, ret |-> <<>>,
            before |-> "none"]

----------------------------------------------------------------------------
(* Database.__init__ *)

Truthy(x) == x # None /\ x # 0

\* self.max_age_hours = max_age_hours or DATABASE_CONFIG["max_age_hours"]
EffectiveMaxAgeHours(arg) == IF Truthy(arg) THEN arg ELSE DefaultMaxAgeHours

NewDatabase(arg, auto, cap) ==
    [max_age_hours |-> EffectiveMaxAgeHours(arg),
     max_age_seconds |-> EffectiveMaxAgeHours(arg) * SecondsPerHour,
     cleanup_interval |-> DefaultCleanupInterval,
     auto_cleanup |-> auto,
     max_db_size_mb |-> DefaultMaxDbSizeMb,
     max_klines_per_symbol |-> cap]

----------------------------------------------------------------------------
(* The statements *)

\* the row INSERT OR REPLACE INTO klines writes
KlineRow(symbol, kline_data, t) ==
    [symbol |-> symbol,
     open_time |-> kline_data.open_time,
     close_time |-> kline_data.close_time,
     open_price |-> kline_data.open_price,
     high_price |-> kline_data.high_price,
     low_price |-> kline_data.low_price,
     close_price |-> kline_data.close_price,
     volume |-> kline_data.volume,
     quote_volume |-> kline_data.quote_volume,
     trades_count |-> IF "trades_count" \in DOMAIN kline_data
                      THEN kline_data.trades_count ELSE 0,
     created_at |-> t]

\* UNIQUE(symbol, open_time)
KlineConflict(r, row) == r.symbol = row.symbol /\ r.open_time = row.open_time

\* variant: INSERT OR IGNORE, the stored version stays
InsertOrIgnoreKline(K, row) ==
    IF \E r \in K : KlineConflict(r, row) THEN K ELSE K \cup {row}

\* variant: a plain INSERT into a table without the UNIQUE constraint
InsertKline(K, row) == K \cup {row}

\* INSERT OR REPLACE INTO klines: the conflicting row is deleted, the new one inserted
InsertOrReplaceKline(K, row) == {r \in K : ~KlineConflict(r, row)} \cup {row}

\* the row INSERT OR REPLACE INTO anomalies writes: its key, the score the
\* queries order by and the ingestion time (the other columns are copied from
\* anomaly_data as they are and no statement of the store looks at them)
AnomalyRow(anomaly_data, t) ==
    [symbol |-> anomaly_data.symbol,
     timestamp |-> anomaly_data.timestamp,
     interval_type |-> anomaly_data.interval_type,
     anomaly_score |-> anomaly_data.anomaly_score,
     created_at |-> t]

\* UNIQUE(symbol, timestamp, interval_type)
AnomalyConflict(r, row) ==
    /\ r.symbol = row.symbol
    /\ r.timestamp = row.timestamp
    /\ r.interval_type = row.interval_type

\* variant: a plain INSERT into a table without the UNIQUE constraint
InsertAnomaly(A, row) == A \cup {row}

\* INSERT OR REPLACE INTO anomalies
InsertOrReplaceAnomaly(A, row) == {r \in A : ~AnomalyConflict(r, row)} \cup {row}

\* variant: ORDER BY open_time ASC
RowNumberAscending(K, r) ==
    Cardinality({q \in K : q.symbol = r.symbol /\ q.open_time < r.open_time}) + 1

\* ROW_NUMBER() OVER (PARTITION BY symbol ORDER BY open_time DESC)
RowNumber(K, r) ==
    Cardinality({q \in K : q.symbol = r.symbol /\ q.open_time > r.open_time}) + 1

\* variant: the age rule applied to the bucket time
DeleteKlinesByOpenTime(K, cutoff) ==
    {r \in K : ~(r.open_time < cutoff * MsPerSecond)}

\* DELETE FROM klines WHERE created_at < cutoff
DeleteAgedKlines(K, cutoff) == {r \in K : ~(r.created_at < cutoff)}

\* DELETE FROM klines WHERE id IN (... WHERE rn > cap), run when cap > 0
DeleteExcessKlines(K, cap) ==
    IF cap > 0 THEN {r \in K : ~(RowNumber(K, r) > cap)} ELSE K

\* variant: the comparison of the age rule inverted
DeleteRecentAnomalies(A, cutoff) == {r \in A : ~(r.created_at > cutoff)}

\* DELETE FROM anomalies WHERE created_at < cutoff
DeleteAgedAnomalies(A, cutoff) == {r \in A : ~(r.created_at < cutoff)}

\* the klines table after the two DELETEs of cleanup_old_data
CleanupKlines(K, cutoff, cap) == DeleteExcessKlines(DeleteAgedKlines(K, cutoff), cap)

----------------------------------------------------------------------------
(* maybe_cleanup's three tests *)

IntervalDue(current_time) ==
    current_time - last_cleanup_time >= db.cleanup_interval

SizeOver(file_size_mb) ==
    db.max_db_size_mb > 0 /\ file_size_mb > db.max_db_size_mb

KlineCount(K, s) == Cardinality({r \in K : r.symbol = s})

\* SELECT symbol, COUNT(*) ... GROUP BY symbol HAVING count > cap LIMIT 1 returns a row
CountOver(K) ==
    /\ db.max_klines_per_symbol > 0
    /\ \E r \in K : KlineCount(K, r.symbol) > db.max_klines_per_symbol

NeedCleanup(current_time, file_size_mb, K) ==
    IntervalDue(current_time) \/ SizeOver(file_size_mb) \/ CountOver(K)

----------------------------------------------------------------------------
(* The queries *)

Min(a, b) == IF a < b THEN a ELSE b

\* LIMIT n, n >= 0
Limit(seq, n) == SubSeq(seq, 1, Min(n, Len(seq)))

Reversed(seq) == [i \in 1..Len(seq) |-> seq[Len(seq) + 1 - i]]

\* ORDER BY open_time DESC over rows of one symbol (open_time is unique there)
RECURSIVE OrderByOpenTimeDesc(_)
OrderByOpenTimeDesc(S) ==
    IF S = {} THEN <<>>
    ELSE LET m == CHOOSE r \in S : \A q \in S : q.open_time <= r.open_time
         IN  <<m>> \o OrderByOpenTimeDesc(S \ {m})

\* variant: the rows as the SELECT delivers them, not reversed
get_recent_klines_desc(K, symbol, limit) ==
    Limit(OrderByOpenTimeDesc({r \in K : r.symbol = symbol}), limit)

\* get_recent_klines: SELECT * FROM klines WHERE symbol = ? ORDER BY open_time DESC
\* LIMIT ?, returned reversed
get_recent_klines(K, symbol, limit) ==
    Reversed(Limit(OrderByOpenTimeDesc({r \in K : r.symbol = symbol}), limit))

\* variant: ORDER BY anomaly_score DESC alone
AnomalyPrecedesByScore(a, b) == a.anomaly_score > b.anomaly_score

\* ORDER BY anomaly_score DESC, timestamp DESC: row a must come before row b
AnomalyPrecedes(a, b) ==
    \/ a.anomaly_score > b.anomaly_score
    \/ a.anomaly_score = b.anomaly_score /\ a.timestamp > b.timestamp

\* the orders in which the ORDER BY may deliver the rows of S
RECURSIVE OrderByScoreDesc(_)
OrderByScoreDesc(S) ==
    IF S = {} THEN {<<>>}
    ELSE UNION {{<<m>> \o rest : rest \in OrderByScoreDesc(S \ {m})} :
                  m \in {x \in S : \A q \in S : ~AnomalyPrecedes(q, x)}}

\* get_recent_anomalies: SELECT * FROM anomalies WHERE interval_type = ? AND
\* timestamp >= ? ORDER BY anomaly_score DESC, timestamp DESC LIMIT ?, read at
\* clock value t: the results it may return
get_recent_anomalies(A, t, interval_type, hours, limit) ==
    LET since_timestamp == t - hours * SecondsPerHour
    IN  {Limit(sq, limit) :
           sq \in OrderByScoreDesc({r \in A : /\ r.interval_type = interval_type
                                              /\ r.timestamp >= since_timestamp})}

----------------------------------------------------------------------------
(* The scoring engine's analysis (src/anomaly_detector.py,                  *)
(* analyze_symbol_anomaly), in integer arithmetic.  Returns and true ranges *)
(* are counted in units of 1/RatioScale, z-scores and scores in hundredths  *)
(* (a z-score rounded toward zero); the threshold tests on a z-score        *)
(* compare squares and are exact.  The modelled candles have closes and     *)
(* ranges for which every quotient below is exact.                          *)

\* self.config of AnomalyDetector; thresholds and weights in hundredths, the
\* return floor in thousandths
PRICE_Z_THRESHOLD == 250
PRICE_PERCENTILE == 92
VOLUME_Z_THRESHOLD == 200
VOLATILITY_Z_THRESHOLD == 200
MIN_ABS_RETURN == 5
WEIGHT_PRICE == 40
WEIGHT_VOLUME == 30
WEIGHT_VOLATILITY == 30
ANOMALY_SCORE_THRESHOLD == 50
MIN_KLINES_REQUIRED == 16
\* if len(returns) < 5
MinReturns == 5
\* db.get_recent_klines(symbol, limit=150)
ReadLimit == 150

Hundredths == 100
Thousandths == 1000
RatioScale == 110

Abs(x) == IF x < 0 THEN 0 - x ELSE x
Max(a, b) == IF a >= b THEN a ELSE b

RECURSIVE Gcd(_, _)
Gcd(a, b) == IF b = 0 THEN a ELSE Gcd(b, a % b)

RECURSIVE SumSeq(_)
SumSeq(s) == IF s = <<>> THEN 0 ELSE Head(s) + SumSeq(Tail(s))

\* the largest r in lo..hi with r * r <= n
RECURSIVE ISqrtIn(_, _, _)
ISqrtIn(n, lo, hi) ==
    IF lo >= hi THEN lo
    ELSE LET mid == (lo + hi + 1) \div 2
         IN  IF mid <= n \div mid THEN ISqrtIn(n, mid, hi)
             ELSE ISqrtIn(n, lo, mid - 1)

ISqrt(n) == ISqrtIn(n, 0, n)

\* array[:-1]
AllButLast(s) == SubSeq(s, 1, Len(s) - 1)

\* np.diff(closes) / closes[:-1]
Returns(closes) ==
    [i \in 1..(Len(closes) - 1) |->
        ((closes[i + 1] - closes[i]) * RatioScale) \div closes[i]]

\* (highs - lows) / closes * 100, in units of 1/RatioScale of a hundredth
TrueRanges(rows) ==
    [i \in 1..Len(rows) |->
        ((rows[i].high_price - rows[i].low_price) * RatioScale)
            \div rows[i].close_price]

\* len(hist) * (cur - np.mean(hist)): the deviation of cur from the mean
Deviation(cur, hist) == Len(hist) * cur - SumSeq(hist)

\* (len(hist) * np.std(hist, ddof=0)) squared
Spread(hist) ==
    Len(hist) * SumSeq([i \in DOMAIN hist |-> hist[i] * hist[i]])
        - SumSeq(hist) * SumSeq(hist)

\* (cur - mean) / std if std > 0 else 0, compared: zscore >= threshold
\* (threshold in hundredths, positive)
ZAtLeast(cur, hist, threshold) ==
    LET g == Gcd(threshold, Hundredths)
        num == threshold \div g
        den == Hundredths \div g
        A == Deviation(cur, hist)
    IN  Spread(hist) > 0 /\ A >= 0
        /\ den * den * A * A >= num * num * Spread(hist)

\* variant: no guard on the standard deviation, the division by a zero
\* deviation giving an infinite z-score
AbsZAtLeastUnguarded(cur, hist, threshold) ==
    LET g == Gcd(threshold, Hundredths)
        num == threshold \div g
        den == Hundredths \div g
        A == Abs(Deviation(cur, hist))
    IN  A > 0 /\ den * den * A * A >= num * num * Spread(hist)

\* variant: the test without abs(), a z-score far below the mean not firing
AbsZAtLeastSigned(cur, hist, threshold) == ZAtLeast(cur, hist, threshold)

\* abs(zscore) >= threshold
AbsZAtLeast(cur, hist, threshold) ==
    LET g == Gcd(threshold, Hundredths)
        num == threshold \div g
        den == Hundredths \div g
        A == Abs(Deviation(cur, hist))
    IN  Spread(hist) > 0
        /\ den * den * A * A >= num * num * Spread(hist)

\* variant: no guard on the standard deviation, the division of a non-zero
\* deviation by a zero standard deviation giving an infinite z-score
ZScoreUnguarded(cur, hist) ==
    LET A == Deviation(cur, hist)
        D == Spread(hist)
    IN  IF D > 0
        THEN (IF A < 0 THEN 0 - ISqrt((Hundredths * Hundredths * A * A) \div D)
              ELSE ISqrt((Hundredths * Hundredths * A * A) \div D))
        ELSE IF A = 0 THEN 0 ELSE IF A < 0 THEN 0 - 1000000 ELSE 1000000

\* (cur - mean) / std if std > 0 else 0, in hundredths
ZScore(cur, hist) ==
    LET A == Deviation(cur, hist)
        D == Spread(hist)
        m == ISqrt((Hundredths * Hundredths * A * A) \div D)
    IN  IF D > 0 THEN (IF A < 0 THEN 0 - m ELSE m) ELSE 0

\* (np.abs(hist_returns) < cur_abs_ret).sum()
CountBelow(cur, hist) == Cardinality({i \in DOMAIN hist : hist[i] < cur})

\* the result of a call that returned None
NoResult == [none |-> TRUE]

\* the tags, in the order the code appends them; each stands for the Chinese
\* word of the source (U+4EF7 U+683C, U+6210 U+4EA4 U+91CF, U+6CE2 U+52A8
\* U+7387, U+7EFC U+5408, U+6B63 U+5E38)
PriceTag == "price"
VolumeTag == "volume"
VolatilityTag == "volatility"
CompositeTag == "composite"
NormalTag == "normal"

\* variant: only the price test appends its tag
TagIfPriceOnly(fired, tag) == IF fired /\ tag = PriceTag THEN <<tag>> ELSE <<>>

\* [tag] if the test fired, else []
TagIf(fired, tag) == IF fired THEN <<tag>> ELSE <<>>

\* np.abs(returns) of the window rows
AbsReturns(rows) ==
    LET returns == Returns([i \in DOMAIN rows |-> rows[i].close_price])
    IN  [i \in DOMAIN returns |-> Abs(returns[i])]

\* cur_abs_ret < self.config["MIN_ABS_RETURN"], for positive closes: the
\* quotient |closes[-1] - closes[-2]| / closes[-2] is compared exactly
BelowFloor(rows) ==
    LET prev == rows[Len(rows) - 1].close_price
        last == rows[Len(rows)].close_price
    IN  Abs(last - prev) * Thousandths < MIN_ABS_RETURN * prev

\* the try block of analyze_symbol_anomaly: NoResult or the dict it returns
\* (rows: the argument klines); anomaly_reasons is the list that "+".join
\* writes out
Analysis(symbol, rows, quote_volume_24h) ==
    LET volumes == [i \in DOMAIN rows |-> rows[i].quote_volume]
        abs_returns == AbsReturns(rows)
    IN
    IF Len(abs_returns) < MinReturns THEN NoResult
    ELSE
    LET hist_returns == AllButLast(abs_returns)
        cur_abs_ret == abs_returns[Len(abs_returns)]
    IN
    IF BelowFloor(rows) THEN NoResult
    ELSE
    LET price_zscore == ZScore(cur_abs_ret, hist_returns)
        price_count == CountBelow(cur_abs_ret, hist_returns)
        \* price_percentile in hundredths of a percent
        price_percentile ==
            (price_count * Hundredths * Hundredths) \div Len(hist_returns)
        hist_volumes == AllButLast(volumes)
        cur_volume == volumes[Len(volumes)]
        volume_zscore == ZScore(cur_volume, hist_volumes)
        true_ranges == TrueRanges(rows)
        hist_volatility == AllButLast(true_ranges)
        cur_volatility == true_ranges[Len(true_ranges)]
        volatility_zscore == ZScore(cur_volatility, hist_volatility)
        price_score ==
            Max(price_zscore - PRICE_Z_THRESHOLD, 0)
            + Max(price_percentile - PRICE_PERCENTILE * Hundredths, 0) \div 10
        volume_score == Max(Abs(volume_zscore) - VOLUME_Z_THRESHOLD, 0)
        volatility_score == Max(volatility_zscore - VOLATILITY_Z_THRESHOLD, 0)
        anomaly_score ==
            (WEIGHT_PRICE * price_score + WEIGHT_VOLUME * volume_score
                + WEIGHT_VOLATILITY * volatility_score) \div Hundredths
        price_fired ==
            \/ ZAtLeast(cur_abs_ret, hist_returns, PRICE_Z_THRESHOLD)
            \/ price_count * Hundredths >= PRICE_PERCENTILE * Len(hist_returns)
        volume_fired == AbsZAtLeast(cur_volume, hist_volumes, VOLUME_Z_THRESHOLD)
        volatility_fired ==
            ZAtLeast(cur_volatility, hist_volatility, VOLATILITY_Z_THRESHOLD)
        tags == TagIf(price_fired, PriceTag) \o TagIf(volume_fired, VolumeTag)
                    \o TagIf(volatility_fired, VolatilityTag)
        over == anomaly_score >= ANOMALY_SCORE_THRESHOLD
        reasons == IF tags # <<>> THEN tags
                   ELSE IF over THEN <<CompositeTag>> ELSE <<NormalTag>>
        latest_kline == rows[Len(rows)]
    IN  [symbol |-> symbol,
         timestamp |-> latest_kline.open_time \div MsPerSecond,
         interval_type |-> "15m",
         price_zscore |-> price_zscore,
         price_percentile |-> price_percentile,
         volume_zscore |-> volume_zscore,
         volatility_zscore |-> volatility_zscore,
         anomaly_score |-> anomaly_score,
         anomaly_reasons |-> reasons,
         quote_volume_24h |-> quote_volume_24h,
         is_anomaly |-> (tags # <<>> \/ over)]

\* analyze_symbol_anomaly(symbol, klines, quote_volume_24h)
analyze_symbol_anomaly(symbol, rows, quote_volume_24h) ==
    IF Len(rows) < MIN_KLINES_REQUIRED THEN NoResult
    ELSE Analysis(symbol, rows, quote_volume_24h)

----------------------------------------------------------------------------
(* The engines before they are started *)

\* the collector thread is in no method whose locals are modelled
IdleFrame == [method |-> "none"]

\* BinanceWSCollector.__init__: self.ws = None, self.symbols = [],
\* self.running = False, self.reconnect_count = 0
NewCollector ==
    [running |-> FALSE, reconnect_count |-> 0, ws |-> "none", symbols |-> {}]

\* AnomalyDetector.__init__: self.running = False; the schedule module holds
\* no job
NewDetector == [running |-> FALSE, jobs |-> 0]

\* the detector thread outside every method; total_processed and
\* anomaly_count are the counters of the last run, errors the number of
\* exceptions it logged, runs the number of runs begun so far
IdleRun ==
    [pc |-> "idle", ret |-> "idle", todo |-> <<>>, symbol |-> "none",
     klines |-> <<>>, volumes_24h |-> "none", total_processed |-> 0,
     anomaly_count |-> 0, errors |-> 0, runs |-> 0]

\* the thread of SystemManager outside every method
IdleManager == [pc |-> "idle", stops |-> 0]

EngineInit ==
    /\ collector = NewCollector
    /\ cstack = <<>>
    /\ cframe = IdleFrame
    /\ detector = NewDetector
    /\ drun = IdleRun
    /\ manager = IdleManager

----------------------------------------------------------------------------
(* Initial states: a fresh database file, just constructed at BootTime.     *)
(* __init__ sets last_cleanup_time = 0, creates the tables and, with        *)
(* auto_cleanup, runs cleanup_old_data() once (on the empty tables).        *)

InitWith(configs) ==
    /\ klines = {}
    /\ anomalies = {}
    /\ now = BootTime
    /\ \E c \in configs :
          /\ ctor_max_age_hours = c[1]
          /\ db = NewDatabase(c[1], c[2], c[3])
          /\ last_sweep_at = IF c[2] THEN BootTime ELSE None
    /\ last_cleanup_time = 0
    /\ lock = NoLock
    /\ pc = [t \in Threads |-> "idle"]
    /\ loc = [t \in Threads |-> IdleLoc]
    /\ EngineInit

Init == InitWith(RetentionConfigs)

----------------------------------------------------------------------------
(* The clock *)

Tick ==
    /\ \E t2 \in Instants : t2 > now /\ now' = t2
    /\ UNCHANGED <<klines, anomalies, db, ctor_max_age_hours, last_cleanup_time,
                   last_sweep_at, lock, pc, loc>>
    /\ UNCHANGED engineVars

----------------------------------------------------------------------------
(* Steps of a thread inside the Database methods *)

Goto(t, label) == pc' = [pc EXCEPT ![t] = label]

\* what the table holds under the key of a candle when a call to write it
\* starts: nothing, a row with the same candle fields, or another version
StoredVersion(K, symbol, kline_data) ==
    IF \A r \in K : ~KlineConflict(r, KlineRow(symbol, kline_data, now))
    THEN "absent"
    ELSE IF \E r \in K : r = KlineRow(symbol, kline_data, r.created_at)
         THEN "same"
         ELSE "other"

\* a call starts: the locals are fresh
StartCall(t, op, arg, label) ==
    /\ pc[t] = "idle"
    /\ Goto(t, label)
    /\ loc' = [loc EXCEPT ![t] =
                 [IdleLoc EXCEPT !.op = op, !.arg = arg, !.status = "running"]]

\* a call ends (status: "returned" or "raised"): its locals are gone
EndCall(t, status) ==
    /\ Goto(t, "idle")
    /\ loc' = [loc EXCEPT ![t] = [IdleLoc EXCEPT !.status = status]]

\* insert_kline(symbol, kline_data) is called
call_insert_kline(t, symbol, kline_data) ==
    /\ pc[t] = "idle"
    /\ Goto(t, "ik_lock")
    /\ loc' = [loc EXCEPT ![t] =
                 [IdleLoc EXCEPT !.op = "insert_kline",
                                 !.arg = [symbol |-> symbol,
                                          kline_data |-> kline_data],
                                 !.status = "running",
                                 !.before = StoredVersion(klines, symbol,
                                                          kline_data)]]
    /\ UNCHANGED <<klines, anomalies, now, db, ctor_max_age_hours,
                   last_cleanup_time, last_sweep_at, lock>>
    /\ UNCHANGED engineVars

\* variant: the transaction is entered without waiting for the lock
EnterWithoutLock(t) == lock' = t

\* with self.lock:
AcquireLock(t) == lock = NoLock /\ lock' = t

insert_kline_lock(t) ==
    /\ pc[t] = "ik_lock"
    /\ AcquireLock(t)
    /\ Goto(t, "ik_txn")
    /\ UNCHANGED <<klines, anomalies, now, db, ctor_max_age_hours,
                   last_cleanup_time, last_sweep_at, loc>>
    /\ UNCHANGED engineVars

\* variant: maybe_cleanup() is called inside the with block, the lock held
insert_kline_commit_nested(t) ==
    /\ pc[t] = "ik_txn"
    /\ klines' = InsertOrReplaceKline(klines,
                    KlineRow(loc[t].arg.symbol, loc[t].arg.kline_data, now))
    /\ Goto(t, "mc_check")
    /\ UNCHANGED <<anomalies, now, db, ctor_max_age_hours, last_cleanup_time,
                   last_sweep_at, lock, loc>>
    /\ UNCHANGED engineVars

\* INSERT OR REPLACE ...; conn.commit(); the lock is released; maybe_cleanup() follows
insert_kline_commit(t) ==
    /\ pc[t] = "ik_txn"
    /\ klines' = InsertOrReplaceKline(klines,
                    KlineRow(loc[t].arg.symbol, loc[t].arg.kline_data, now))
    /\ lock' = NoLock
    /\ Goto(t, "mc_check")
    /\ UNCHANGED <<anomalies, now, db, ctor_max_age_hours, last_cleanup_time,
                   last_sweep_at, loc>>
    /\ UNCHANGED engineVars

\* the connection, the statement or the commit raises: nothing is written, the
\* lock is released and the exception leaves insert_kline (no maybe_cleanup)
insert_kline_fail(t) ==
    /\ pc[t] = "ik_txn"
    /\ lock' = NoLock
    /\ EndCall(t, "raised")
    /\ UNCHANGED <<klines, anomalies, now, db, ctor_max_age_hours,
                   last_cleanup_time, last_sweep_at>>
    /\ UNCHANGED engineVars

\* insert_anomaly(anomaly_data) is called
call_insert_anomaly(t, anomaly_data) ==
    /\ StartCall(t, "insert_anomaly", [anomaly_data |-> anomaly_data], "ia_lock")
    /\ UNCHANGED <<klines, anomalies, now, db, ctor_max_age_hours,
                   last_cleanup_time, last_sweep_at, lock>>
    /\ UNCHANGED engineVars

insert_anomaly_lock(t) ==
    /\ pc[t] = "ia_lock"
    /\ AcquireLock(t)
    /\ Goto(t, "ia_txn")
    /\ UNCHANGED <<klines, anomalies, now, db, ctor_max_age_hours,
                   last_cleanup_time, last_sweep_at, loc>>
    /\ UNCHANGED engineVars

insert_anomaly_commit(t) ==
    /\ pc[t] = "ia_txn"
    /\ anomalies' = InsertOrReplaceAnomaly(anomalies,
                       AnomalyRow(loc[t].arg.anomaly_data, now))
    /\ lock' = NoLock
    /\ Goto(t, "mc_check")
    /\ UNCHANGED <<klines, now, db, ctor_max_age_hours, last_cleanup_time,
                   last_sweep_at, loc>>
    /\ UNCHANGED engineVars

insert_anomaly_fail(t) ==
    /\ pc[t] = "ia_txn"
    /\ lock' = NoLock
    /\ EndCall(t, "raised")
    /\ UNCHANGED <<klines, anomalies, now, db, ctor_max_age_hours,
                   last_cleanup_time, last_sweep_at>>
    /\ UNCHANGED engineVars

\* maybe_cleanup(): the early return, or current_time and the three tests
maybe_cleanup(t) ==
    /\ pc[t] = "mc_check"
    /\ IF ~db.auto_cleanup
       THEN EndCall(t, "returned")
       ELSE \E file_size_mb \in FileSizesMb :
              IF NeedCleanup(now, file_size_mb, klines)
              THEN /\ Goto(t, "cl_cutoff")
                   /\ loc' = [loc EXCEPT ![t].current_time = now,
                                         ![t].file_size_mb = file_size_mb]
              ELSE EndCall(t, "returned")
    /\ UNCHANGED <<klines, anomalies, now, db, ctor_max_age_hours,
                   last_cleanup_time, last_sweep_at, lock>>
    /\ UNCHANGED engineVars

\* cleanup_old_data() called directly (as cleanup.py does)
call_cleanup_old_data(t) ==
    /\ StartCall(t, "cleanup_old_data", NoArg, "cl_cutoff")
    /\ UNCHANGED <<klines, anomalies, now, db, ctor_max_age_hours,
                   last_cleanup_time, last_sweep_at, lock>>
    /\ UNCHANGED engineVars

\* cutoff_time = int(time.time()) - self.max_age_seconds, read before the lock
cleanup_old_data_cutoff(t) ==
    /\ pc[t] = "cl_cutoff"
    /\ loc' = [loc EXCEPT ![t].cutoff = now - db.max_age_seconds,
                          ![t].file_size_mb = None]
    /\ Goto(t, "cl_lock")
    /\ UNCHANGED <<klines, anomalies, now, db, ctor_max_age_hours,
                   last_cleanup_time, last_sweep_at, lock>>
    /\ UNCHANGED engineVars

cleanup_old_data_lock(t) ==
    /\ pc[t] = "cl_lock"
    /\ AcquireLock(t)
    /\ Goto(t, "cl_txn")
    /\ UNCHANGED <<klines, anomalies, now, db, ctor_max_age_hours,
                   last_cleanup_time, last_sweep_at, loc>>
    /\ UNCHANGED engineVars

\* the DELETEs and conn.commit(); the lock is released
cleanup_old_data_commit(t) ==
    /\ pc[t] = "cl_txn"
    /\ klines' = CleanupKlines(klines, loc[t].cutoff, db.max_klines_per_symbol)
    /\ anomalies' = DeleteAgedAnomalies(anomalies, loc[t].cutoff)
    /\ last_sweep_at' = now
    /\ lock' = NoLock
    /\ IF loc[t].op = "cleanup_old_data"
       THEN EndCall(t, "returned")
       ELSE Goto(t, "mc_set") /\ loc' = [loc EXCEPT ![t].swept = TRUE]
    /\ UNCHANGED <<now, db, ctor_max_age_hours, last_cleanup_time>>
    /\ UNCHANGED engineVars

\* a statement raises before the commit: the except clause logs and returns {},
\* closing the connection rolls the transaction back
cleanup_old_data_fail(t) ==
    /\ pc[t] = "cl_txn"
    /\ lock' = NoLock
    /\ IF loc[t].op = "cleanup_old_data"
       THEN EndCall(t, "returned")
       ELSE Goto(t, "mc_set") /\ UNCHANGED loc
    /\ UNCHANGED <<klines, anomalies, now, db, ctor_max_age_hours,
                   last_cleanup_time, last_sweep_at>>
    /\ UNCHANGED engineVars

\* self.last_cleanup_time = current_time
maybe_cleanup_set(t) ==
    /\ pc[t] = "mc_set"
    /\ last_cleanup_time' = loc[t].current_time
    /\ EndCall(t, "returned")
    /\ UNCHANGED <<klines, anomalies, now, db, ctor_max_age_hours,
                   last_sweep_at, lock>>
    /\ UNCHANGED engineVars

\* get_recent_klines(symbol, limit): one SELECT
call_get_recent_klines(t, symbol, limit) ==
    /\ pc[t] = "idle"
    /\ loc' = [loc EXCEPT ![t] =
                 [IdleLoc EXCEPT !.op = "get_recent_klines",
                                 !.arg = [symbol |-> symbol, limit |-> limit],
                                 !.status = "returned",
                                 !.ret = get_recent_klines(klines, symbol, limit)]]
    /\ UNCHANGED <<klines, anomalies, now, db, ctor_max_age_hours,
                   last_cleanup_time, last_sweep_at, lock, pc>>
    /\ UNCHANGED engineVars

\* get_recent_anomalies(interval_type, hours, limit): one SELECT; rows that tie
\* in the ORDER BY come in any order
call_get_recent_anomalies(t, interval_type, hours, limit) ==
    /\ pc[t] = "idle"
    /\ \E ret \in get_recent_anomalies(anomalies, now, interval_type, hours, limit) :
          loc' = [loc EXCEPT ![t] =
                    [IdleLoc EXCEPT !.op = "get_recent_anomalies",
                                    !.arg = [interval_type |-> interval_type,
                                             hours |-> hours, limit |-> limit],
                                    !.status = "returned",
                                    !.ret = ret]]
    /\ UNCHANGED <<klines, anomalies, now, db, ctor_max_age_hours,
                   last_cleanup_time, last_sweep_at, lock, pc>>
    /\ UNCHANGED engineVars

\* the steps a thread takes once it is inside insert_kline
InsertKlineStep(t) ==
    \/ insert_kline_lock(t)
    \/ insert_kline_commit(t)
    \/ insert_kline_fail(t)

\* the steps of maybe_cleanup and cleanup_old_data
SweepStep(t) ==
    \/ maybe_cleanup(t)
    \/ cleanup_old_data_cutoff(t)
    \/ cleanup_old_data_lock(t)
    \/ cleanup_old_data_commit(t)
    \/ cleanup_old_data_fail(t)
    \/ maybe_cleanup_set(t)

KlineStep(t) == InsertKlineStep(t) \/ SweepStep(t)

\* the steps a thread takes once it is inside insert_anomaly
AnomalyStep(t) ==
    \/ insert_anomaly_lock(t)
    \/ insert_anomaly_commit(t)
    \/ insert_anomaly_fail(t)

Step(t) == KlineStep(t) \/ AnomalyStep(t)

----------------------------------------------------------------------------
(* Spec: the store under one client thread that writes candles and anomaly *)
(* results and calls the sweep directly, under every configuration         *)

RetentionCall(t) ==
    \/ \E u \in FullKlineUpdates : call_insert_kline(t, u.symbol, u.kline_data)
    \/ \E ad \in AnomalyData : call_insert_anomaly(t, ad)
    \/ call_cleanup_old_data(t)

Next ==
    \/ Tick
    \/ \E t \in SeqThreads : RetentionCall(t)
    \/ \E t \in SeqThreads : Step(t)

Spec == Init /\ [][Next]_vars

----------------------------------------------------------------------------
(* Retention: the sweep *)

\* the sweep of thread t commits in this step
SweepCommits(t) == cleanup_old_data_commit(t)

\* the candle rows of K whose ingestion time is not before the cutoff
NotAged(K, cutoff) == {r \in K : r.created_at >= cutoff}

\* the number of rows of K of r's symbol with a later bucket than r
LaterBuckets(K, r) ==
    Cardinality({q \in K : q.symbol = r.symbol /\ q.open_time > r.open_time})

\* no stored row can be as old as max_age_seconds: rows are ingested at
\* BootTime or later and the clock stops at the last instant
AgeInfinite == db.max_age_seconds > MaxHours * SecondsPerHour

\* a sweep triggered by a write has just committed in thread t
JustSwept(t) == pc[t] = "mc_set" /\ loc[t].swept

\* C4 (as claimed): a sweep of a store constructed with max_age_hours = 0
\* leaves both tables empty.
C4_MaxAgeZeroSweepEmptiesTables ==
    [][\A t \in Threads :
         (SweepCommits(t) /\ ctor_max_age_hours = 0)
            => (klines' = {} /\ anomalies' = {})]_vars

\* C5 (as claimed): a sweep under an infinite max age removes no row of
\* either table, whatever the per-symbol cap.
C5_InfiniteAgeSweepRemovesNothing ==
    [][\A t \in Threads :
         (SweepCommits(t) /\ AgeInfinite)
            => (klines' = klines /\ anomalies' = anomalies)]_vars

\* C5 (amended): a sweep under an infinite max age removes no anomaly row and
\* no candle row by age; the candle rows it removes are exactly those beyond
\* the per-symbol cap, so with the cap disabled or no symbol over its cap it
\* removes nothing.
C5_InfiniteAgeSweepRemovesOnlyExcess ==
    [][\A t \in Threads :
         (SweepCommits(t) /\ AgeInfinite)
            => /\ anomalies' = anomalies
               /\ klines' \subseteq klines
               /\ \A r \in klines :
                    r \notin klines' <=>
                       /\ db.max_klines_per_symbol > 0
                       /\ LaterBuckets(klines, r) >= db.max_klines_per_symbol]_vars

C5_Witness ==
    \E t \in Threads :
       /\ JustSwept(t)
       /\ AgeInfinite
       /\ klines # {}
       /\ anomalies # {}

C7_CapKeepsMostRecent ==
    [][\A t \in Threads :
         (SweepCommits(t) /\ db.max_klines_per_symbol > 0)
            => /\ \A s \in Symbols :
                    KlineCount(klines', s) <= db.max_klines_per_symbol
               /\ klines' =
                    {r \in NotAged(klines, loc[t].cutoff) :
                       LaterBuckets(NotAged(klines, loc[t].cutoff), r)
                          < db.max_klines_per_symbol}]_vars

\* the sweep that followed a candle write removed that candle as excess: its
\* bucket is older than the buckets kept
C7_Witness ==
    \E t \in Threads :
       /\ JustSwept(t)
       /\ AgeInfinite
       /\ loc[t].op = "insert_kline"
       /\ \A r \in klines :
             ~(/\ r.symbol = loc[t].arg.symbol
               /\ r.open_time = loc[t].arg.kline_data.open_time)
       /\ KlineCount(klines, loc[t].arg.symbol) = db.max_klines_per_symbol

\* C8 (as claimed): maybe_cleanup starts a sweep after a write only if the
\* interval has elapsed since the last sweep (the one at construction included),
\* or the file is over its size cap, or a symbol is over its row cap.
C8_SweepOnlyWhenDue ==
    [][\A t \in Threads :
         (maybe_cleanup(t) /\ pc'[t] = "cl_cutoff")
            => \/ now - last_sweep_at >= db.cleanup_interval
               \/ SizeOver(loc'[t].file_size_mb)
               \/ CountOver(klines)]_vars

----------------------------------------------------------------------------
(* SpecUpsert: one client thread that writes candles in both record shapes, *)
(* over the same keys again and again, and reads them back; the sweeps are  *)
(* the ones the writes trigger.                                             *)

UpsertConfigs == {<<1, TRUE, 0>>}

InitUpsert == InitWith(UpsertConfigs)

UpsertCall(t) ==
    \/ \E u \in KlineUpdates : call_insert_kline(t, u.symbol, u.kline_data)
    \/ \E s \in Symbols, n \in Limits : call_get_recent_klines(t, s, n)

NextUpsert ==
    \/ Tick
    \/ \E t \in SeqThreads : UpsertCall(t)
    \/ \E t \in SeqThreads : KlineStep(t)

SpecUpsert == InitUpsert /\ [][NextUpsert]_vars

\* row r holds the candle that a call with argument arg writes
HoldsVersion(r, arg) ==
    /\ r.symbol = arg.symbol
    /\ \A f \in DOMAIN arg.kline_data : r[f] = arg.kline_data[f]
    /\ "trades_count" \notin DOMAIN arg.kline_data => r.trades_count = 0

\* the columns of a candle row other than its ingestion time
CandleFields(r) == [f \in (DOMAIN r) \ {"created_at"} |-> r[f]]

CandleFieldsOf(K) == {CandleFields(r) : r \in K}

\* thread t has returned from get_recent_klines and holds its result
HasRead(t) == pc[t] = "idle" /\ loc[t].op = "get_recent_klines"

\* C1: the store never holds two candle rows with the same (symbol, open_time);
\* a committed write leaves under its key the version it wrote; no step changes
\* or adds a row except the write of that version; and get_recent_klines returns
\* rows of the store, one per key: what is read under a key is the version
\* written last.
C1_LastWriteWins ==
    /\ [](\A r, q \in klines :
             (r.symbol = q.symbol /\ r.open_time = q.open_time) => r = q)
    /\ [](\A t \in Threads :
             HasRead(t) =>
                \A i \in DOMAIN loc[t].ret :
                   /\ loc[t].ret[i] \in klines
                   /\ loc[t].ret[i].symbol = loc[t].arg.symbol
                   /\ \A j \in DOMAIN loc[t].ret :
                         loc[t].ret[i].open_time = loc[t].ret[j].open_time
                            => i = j)
    /\ [][/\ \A t \in Threads :
                insert_kline_commit(t) =>
                   \E r \in klines' : HoldsVersion(r, loc[t].arg)
          /\ \A r \in klines' :
                \/ r \in klines
                \/ \E t \in Threads : /\ insert_kline_commit(t)
                                      /\ HoldsVersion(r, loc[t].arg)]_vars

\* a write has just replaced another version stored under its key
C1_Witness ==
    \E t \in Threads :
       /\ pc[t] = "mc_check"
       /\ loc[t].op = "insert_kline"
       /\ loc[t].before = "other"
       /\ \E r \in klines : HoldsVersion(r, loc[t].arg)

\* C2: get_recent_klines(symbol, N), N >= 0, returns at most N rows, strictly
\* ascending by open_time, and they are exactly the rows of the symbol that have
\* fewer than N rows of the symbol after them in open_time (all of the symbol's
\* rows when it has fewer than N).
C2_RecentCandles ==
    \A t \in Threads :
       HasRead(t) =>
          LET ret == loc[t].ret
              n == loc[t].arg.limit
              rows == {r \in klines : r.symbol = loc[t].arg.symbol}
          IN  /\ Len(ret) <= n
              /\ \A i, j \in DOMAIN ret :
                    i < j => ret[i].open_time < ret[j].open_time
              /\ {ret[i] : i \in DOMAIN ret} =
                    {r \in rows :
                       Cardinality({q \in rows : q.open_time > r.open_time}) < n}
              /\ Cardinality(rows) < n => {ret[i] : i \in DOMAIN ret} = rows

\* a read with a limit below the symbol's row count returned the latest bucket
\* and left an older one out
C2_Witness ==
    \E t \in Threads :
       /\ HasRead(t)
       /\ Len(loc[t].ret) = loc[t].arg.limit
       /\ loc[t].arg.limit > 0
       /\ KlineCount(klines, loc[t].arg.symbol) > loc[t].arg.limit

\* thread t is inside a call of insert_kline whose record equals, in every
\* candle field, the row stored under its key when the call started
RepeatCall(t) ==
    /\ pc[t] # "idle"
    /\ loc[t].op = "insert_kline"
    /\ loc[t].before = "same"

\* C3 (as claimed): a second insert_kline with an identical record is a no-op:
\* no step of the call changes the stored candles (read even without their
\* ingestion times), so the store after the call equals the store before it.
C3_RepeatedUpsertIsNoOp ==
    [][\A t \in Threads :
         RepeatCall(t) => CandleFieldsOf(klines') = CandleFieldsOf(klines)]_vars

\* C3 (amended): the write of a second insert_kline with an identical record
\* keeps the candle fields of every row and adds no row: it only stamps the
\* row of its key with the clock of the write; the sweep that the call may
\* trigger only removes rows; the other steps of the call leave the table alone.
C3_RepeatedUpsertKeepsFields ==
    [][\A t \in Threads :
         RepeatCall(t) =>
            IF insert_kline_commit(t)
            THEN /\ CandleFieldsOf(klines') = CandleFieldsOf(klines)
                 /\ Cardinality(klines') = Cardinality(klines)
                 /\ \A r \in klines' :
                       IF HoldsVersion(r, loc[t].arg)
                       THEN r.created_at = now
                       ELSE r \in klines
            ELSE IF SweepCommits(t)
                 THEN klines' \subseteq klines
                 ELSE klines' = klines]_vars

\* a second identical write has been committed and the sweep it triggered too
C3_Witness ==
    \E t \in Threads :
       /\ RepeatCall(t)
       /\ JustSwept(t)
       /\ \E r \in klines : HoldsVersion(r, loc[t].arg)

----------------------------------------------------------------------------
(* SpecConc: the ingestion thread writes candles while the scoring thread   *)
(* writes anomaly results; each write may run the sweep.                    *)

ConcThreads == {"ingest", "score"}

ConcConfigs == {<<1, TRUE, SmallCap>>}

InitConc == InitWith(ConcConfigs)

\* the ingestion thread's updates: the latest bucket of each symbol
ConcKlineUpdates == {u \in FullKlineUpdates : u.kline_data.open_time = LatestOpenTime}

ConcCall(t) ==
    \/ /\ t = "ingest"
       /\ \E u \in ConcKlineUpdates : call_insert_kline(t, u.symbol, u.kline_data)
    \/ /\ t = "score"
       /\ \E ad \in AnomalyData : call_insert_anomaly(t, ad)

NextConc ==
    \/ Tick
    \/ \E t \in ConcThreads : ConcCall(t)
    \/ \E t \in ConcThreads : Step(t)

SpecConc == InitConc /\ [][NextConc]_vars

\* thread t is between the start and the commit (or rollback) of a write
\* transaction
InTransaction(t) == pc[t] \in {"ik_txn", "ia_txn", "cl_txn"}

\* thread t is blocked at "with self.lock"
AtLock(t) == pc[t] \in {"ik_lock", "ia_lock", "cl_lock"}

\* C9: in every interleaving of the ingestion and the scoring thread at most one
\* thread is inside the transaction of insert_kline, insert_anomaly or
\* cleanup_old_data, and that thread holds Database.lock.
C9_WritesSerialised ==
    /\ Cardinality({t \in Threads : InTransaction(t)}) <= 1
    /\ \A t \in Threads : InTransaction(t) => lock = t

\* one thread is inside a transaction while the other waits for the lock
C9_Witness ==
    \E t, u \in Threads :
       /\ t # u
       /\ InTransaction(t)
       /\ AtLock(u)

----------------------------------------------------------------------------
(* SpecQuery: one client thread that writes anomaly results of several      *)
(* scores, buckets and interval types and queries them; the process started *)
(* at any of the instants and the clock stands still in between.            *)

QueryConfigs == {<<None, TRUE, 0>>}

InitQuery ==
    /\ klines = {}
    /\ anomalies = {}
    /\ now \in Instants
    /\ \E c \in QueryConfigs :
          /\ ctor_max_age_hours = c[1]
          /\ db = NewDatabase(c[1], c[2], c[3])
    /\ last_sweep_at = now
    /\ last_cleanup_time = 0
    /\ lock = NoLock
    /\ pc = [t \in Threads |-> "idle"]
    /\ loc = [t \in Threads |-> IdleLoc]
    /\ EngineInit

QueryCall(t) ==
    \/ \E ad \in QueryAnomalyData : call_insert_anomaly(t, ad)
    \/ \E it \in IntervalTypes, h \in QueryHours, n \in Limits :
          call_get_recent_anomalies(t, it, h, n)

NextQuery ==
    \/ \E t \in SeqThreads : QueryCall(t)
    \/ \E t \in SeqThreads : AnomalyStep(t)
    \/ \E t \in SeqThreads : SweepStep(t)

SpecQuery == InitQuery /\ [][NextQuery]_vars

\* thread t calls get_recent_anomalies in this step and gets its result
ReadsAnomalies(t) ==
    /\ pc[t] = "idle"
    /\ loc'[t] # loc[t]
    /\ loc'[t].op = "get_recent_anomalies"

\* C10: get_recent_anomalies(interval_type, hours, limit), limit >= 0, returns
\* distinct rows of that interval_type with timestamp >= now - hours * 3600,
\* ordered by anomaly_score descending and, among equal scores, by timestamp
\* descending; it returns min(limit, number of such rows) of them, and no row
\* it leaves out comes before a returned one in that order.
C10_RecentAnomalies ==
    [][\A t \in Threads :
            ReadsAnomalies(t) =>
               LET ret == loc'[t].ret
                   it == loc'[t].arg.interval_type
                   h == loc'[t].arg.hours
                   n == loc'[t].arg.limit
                   match == {r \in anomalies :
                               /\ r.interval_type = it
                               /\ r.timestamp >= now - h * SecondsPerHour}
               IN  /\ \A i \in DOMAIN ret : ret[i] \in match
                   /\ \A i, j \in DOMAIN ret :
                         i < j =>
                            /\ ret[i] # ret[j]
                            /\ \/ ret[i].anomaly_score > ret[j].anomaly_score
                               \/ /\ ret[i].anomaly_score = ret[j].anomaly_score
                                  /\ ret[i].timestamp >= ret[j].timestamp
                   /\ Len(ret) = Min(n, Cardinality(match))
                   /\ \A r \in match :
                         (\A i \in DOMAIN ret : ret[i] # r) =>
                            \A i \in DOMAIN ret :
                               \/ ret[i].anomaly_score > r.anomaly_score
                               \/ /\ ret[i].anomaly_score = r.anomaly_score
                                  /\ ret[i].timestamp >= r.timestamp]_vars

\* a query returned as many rows as its limit, two of them with equal scores
\* in descending timestamp order, and a stored row was filtered or cut off
C10_Witness ==
    \E t \in Threads :
       /\ pc[t] = "idle"
       /\ loc[t].op = "get_recent_anomalies"
       /\ Len(loc[t].ret) = loc[t].arg.limit
       /\ \E i, j \in DOMAIN loc[t].ret :
             /\ i < j
             /\ loc[t].ret[i].anomaly_score = loc[t].ret[j].anomaly_score
             /\ loc[t].ret[i].timestamp > loc[t].ret[j].timestamp
       /\ \E r \in anomalies : \A i \in DOMAIN loc[t].ret : loc[t].ret[i] # r

----------------------------------------------------------------------------
(* The scoring run (src/anomaly_detector.py, detect_anomalies), a sequence   *)
(* of steps of the thread "score": the 24h volumes, the symbol list, then    *)
(* for each symbol the read of its window, the analysis and the upsert.      *)

ScoreThread == "score"

\* volumes_24h.get(symbol, 0)
QuoteVolume24h(volumes_24h, symbol) ==
    IF symbol \in volumes_24h THEN 5000 ELSE 0

\* the orders in which a SELECT without ORDER BY may deliver the set S
RECURSIVE Orders(_)
Orders(S) ==
    IF S = {} THEN {<<>>}
    ELSE UNION {{<<x>> \o sq : sq \in Orders(S \ {x})} : x \in S}

\* detect_anomalies() is entered; label: where the caller goes on afterwards
detect_anomalies_enter(label) ==
    drun' = [IdleRun EXCEPT !.pc = "dt_volumes", !.ret = label,
                            !.runs = drun.runs + 1]

\* variant: get_24h_volumes lets the error of the request through, the outer
\* except of detect_anomalies ends the run
detect_volumes_abort ==
    /\ drun.pc = "dt_volumes"
    /\ \/ drun' = [drun EXCEPT !.pc = "dt_symbols", !.volumes_24h = Symbols]
       \/ drun' = [IdleRun EXCEPT !.pc = drun.ret, !.runs = drun.runs,
                                  !.errors = drun.errors + 1]
    /\ UNCHANGED <<klines, anomalies, now, db, ctor_max_age_hours,
                   last_cleanup_time, last_sweep_at, lock, pc, loc,
                   collector, cstack, detector, manager,
                   cframe>>

\* volumes_24h = self.get_24h_volumes(): the ticker's symbols, or {} when the
\* request failed
detect_volumes ==
    /\ drun.pc = "dt_volumes"
    /\ \E v \in {{}, Symbols} :
          drun' = [drun EXCEPT !.pc = "dt_symbols", !.volumes_24h = v]
    /\ UNCHANGED <<klines, anomalies, now, db, ctor_max_age_hours,
                   last_cleanup_time, last_sweep_at, lock, pc, loc,
                   collector, cstack, detector, manager,
                   cframe>>

\* SELECT DISTINCT symbol FROM klines
detect_symbols ==
    /\ drun.pc = "dt_symbols"
    /\ \E sq \in Orders({r.symbol : r \in klines}) :
          drun' = [drun EXCEPT !.pc = "dt_next", !.todo = sq]
    /\ UNCHANGED <<klines, anomalies, now, db, ctor_max_age_hours,
                   last_cleanup_time, last_sweep_at, lock, pc, loc,
                   collector, cstack, detector, manager,
                   cframe>>

\* the run is over: the outer except caught an error of the enumeration, or
\* the loop is through
EndRun ==
    [IdleRun EXCEPT !.pc = drun.ret, !.runs = drun.runs,
                    !.total_processed = drun.total_processed,
                    !.anomaly_count = drun.anomaly_count,
                    !.errors = drun.errors]

\* variant: no outer try, the error of the enumeration leaving
\* detect_anomalies and start(); run_detector logs it and the thread ends
detect_symbols_crash ==
    /\ drun.pc = "dt_symbols"
    /\ drun' = [EndRun EXCEPT !.pc = "returned", !.errors = drun.errors + 1]
    /\ UNCHANGED <<klines, anomalies, now, db, ctor_max_age_hours,
                   last_cleanup_time, last_sweep_at, lock, pc, loc,
                   collector, cstack, detector, manager,
                   cframe>>

detect_symbols_fail ==
    /\ drun.pc = "dt_symbols"
    /\ drun' = [EndRun EXCEPT !.errors = drun.errors + 1]
    /\ UNCHANGED <<klines, anomalies, now, db, ctor_max_age_hours,
                   last_cleanup_time, last_sweep_at, lock, pc, loc,
                   collector, cstack, detector, manager,
                   cframe>>

detect_done ==
    /\ drun.pc = "dt_next"
    /\ drun.todo = <<>>
    /\ drun' = EndRun
    /\ UNCHANGED <<klines, anomalies, now, db, ctor_max_age_hours,
                   last_cleanup_time, last_sweep_at, lock, pc, loc,
                   collector, cstack, detector, manager,
                   cframe>>

\* for symbol in symbols: klines = db.get_recent_klines(symbol, limit=150)
detect_read ==
    /\ drun.pc = "dt_next"
    /\ drun.todo # <<>>
    /\ drun' = [drun EXCEPT
                  !.pc = "dt_analyze",
                  !.symbol = Head(drun.todo),
                  !.todo = Tail(drun.todo),
                  !.klines = get_recent_klines(klines, Head(drun.todo), ReadLimit)]
    /\ UNCHANGED <<klines, anomalies, now, db, ctor_max_age_hours,
                   last_cleanup_time, last_sweep_at, lock, pc, loc,
                   collector, cstack, detector, manager,
                   cframe>>

\* variant: no try around the loop body, the error of a read reaching the
\* outer except, which ends the run
detect_read_abort ==
    /\ drun.pc = "dt_next"
    /\ drun.todo # <<>>
    /\ drun' = [EndRun EXCEPT !.errors = drun.errors + 1]
    /\ UNCHANGED <<klines, anomalies, now, db, ctor_max_age_hours,
                   last_cleanup_time, last_sweep_at, lock, pc, loc,
                   collector, cstack, detector, manager,
                   cframe>>

\* the read raised: the except of the loop body logs it, the loop goes on
detect_read_fail ==
    /\ drun.pc = "dt_next"
    /\ drun.todo # <<>>
    /\ drun' = [drun EXCEPT !.symbol = "none", !.todo = Tail(drun.todo),
                            !.klines = <<>>, !.errors = drun.errors + 1]
    /\ UNCHANGED <<klines, anomalies, now, db, ctor_max_age_hours,
                   last_cleanup_time, last_sweep_at, lock, pc, loc,
                   collector, cstack, detector, manager,
                   cframe>>

\* result = self.analyze_symbol_anomaly(symbol, klines, volume_24h)
RunResult ==
    analyze_symbol_anomaly(drun.symbol, drun.klines,
                           QuoteVolume24h(drun.volumes_24h, drun.symbol))

\* variant: a None result is subscripted, the except of the loop body logs
\* the TypeError
detect_skip_logged ==
    /\ drun.pc = "dt_analyze"
    /\ \/ Len(drun.klines) < MIN_KLINES_REQUIRED
       \/ RunResult = NoResult
    /\ drun' = [drun EXCEPT !.pc = "dt_next", !.symbol = "none", !.klines = <<>>,
                            !.errors = drun.errors + 1]
    /\ UNCHANGED <<klines, anomalies, now, db, ctor_max_age_hours,
                   last_cleanup_time, last_sweep_at, lock, pc, loc,
                   collector, cstack, detector, manager,
                   cframe>>

\* variant: a result that is no anomaly is dropped too
detect_skip_normal ==
    /\ drun.pc = "dt_analyze"
    /\ \/ Len(drun.klines) < MIN_KLINES_REQUIRED
       \/ RunResult = NoResult
       \/ (RunResult # NoResult /\ ~RunResult.is_anomaly)
    /\ drun' = [drun EXCEPT !.pc = "dt_next", !.symbol = "none", !.klines = <<>>]
    /\ UNCHANGED <<klines, anomalies, now, db, ctor_max_age_hours,
                   last_cleanup_time, last_sweep_at, lock, pc, loc,
                   collector, cstack, detector, manager,
                   cframe>>

\* if len(klines) < MIN_KLINES_REQUIRED: continue; ...; if result: (skipped)
detect_skip ==
    /\ drun.pc = "dt_analyze"
    /\ \/ Len(drun.klines) < MIN_KLINES_REQUIRED
       \/ RunResult = NoResult
    /\ drun' = [drun EXCEPT !.pc = "dt_next", !.symbol = "none", !.klines = <<>>]
    /\ UNCHANGED <<klines, anomalies, now, db, ctor_max_age_hours,
                   last_cleanup_time, last_sweep_at, lock, pc, loc,
                   collector, cstack, detector, manager,
                   cframe>>

\* whether the table holds a row under the key of a result when the call to
\* write it starts
StoredResult(A, anomaly_data) ==
    IF \E r \in A : AnomalyConflict(r, AnomalyRow(anomaly_data, now))
    THEN "stored" ELSE "absent"

\* variant: neither test of the window's length, the analysis run on whatever
\* was read
detect_insert_unchecked ==
    /\ drun.pc = "dt_analyze"
    /\ LET result == Analysis(drun.symbol, drun.klines,
                              QuoteVolume24h(drun.volumes_24h, drun.symbol))
       IN  /\ result # NoResult
           /\ pc[ScoreThread] = "idle"
           /\ Goto(ScoreThread, "ia_lock")
           /\ loc' = [loc EXCEPT ![ScoreThread] =
                        [IdleLoc EXCEPT !.op = "insert_anomaly",
                                        !.arg = [anomaly_data |-> result],
                                        !.status = "running",
                                        !.before = StoredResult(anomalies, result)]]
    /\ drun' = [drun EXCEPT !.pc = "dt_insert"]
    /\ UNCHANGED <<klines, anomalies, now, db, ctor_max_age_hours,
                   last_cleanup_time, last_sweep_at, lock,
                   collector, cstack, detector, manager,
                   cframe>>

\* variant: the detector keeps a count of its runs and the score of a result
\* grows with it
detect_insert_drifting ==
    /\ drun.pc = "dt_analyze"
    /\ ~(Len(drun.klines) < MIN_KLINES_REQUIRED)
    /\ RunResult # NoResult
    /\ pc[ScoreThread] = "idle"
    /\ Goto(ScoreThread, "ia_lock")
    /\ LET result == [RunResult EXCEPT !.anomaly_score = @ + drun.runs - 1]
       IN  loc' = [loc EXCEPT ![ScoreThread] =
                     [IdleLoc EXCEPT !.op = "insert_anomaly",
                                     !.arg = [anomaly_data |-> result],
                                     !.status = "running",
                                     !.before = StoredResult(anomalies, result)]]
    /\ drun' = [drun EXCEPT !.pc = "dt_insert"]
    /\ UNCHANGED <<klines, anomalies, now, db, ctor_max_age_hours,
                   last_cleanup_time, last_sweep_at, lock,
                   collector, cstack, detector, manager,
                   cframe>>

\* if result: db.insert_anomaly(result) is called
detect_insert ==
    /\ drun.pc = "dt_analyze"
    /\ ~(Len(drun.klines) < MIN_KLINES_REQUIRED)
    /\ RunResult # NoResult
    /\ pc[ScoreThread] = "idle"
    /\ Goto(ScoreThread, "ia_lock")
    /\ loc' = [loc EXCEPT ![ScoreThread] =
                 [IdleLoc EXCEPT !.op = "insert_anomaly",
                                 !.arg = [anomaly_data |-> RunResult],
                                 !.status = "running",
                                 !.before = StoredResult(anomalies, RunResult)]]
    /\ drun' = [drun EXCEPT !.pc = "dt_insert"]
    /\ UNCHANGED <<klines, anomalies, now, db, ctor_max_age_hours,
                   last_cleanup_time, last_sweep_at, lock,
                   collector, cstack, detector, manager,
                   cframe>>

\* insert_anomaly returned (total_processed += 1, anomaly_count += 1 for an
\* anomaly) or raised (the except of the loop body logs it): the loop goes on
detect_inserted ==
    /\ drun.pc = "dt_insert"
    /\ pc[ScoreThread] = "idle"
    /\ LET ok == loc[ScoreThread].status = "returned"
           hit == RunResult.is_anomaly
       IN  drun' = [drun EXCEPT
                      !.pc = "dt_next", !.symbol = "none", !.klines = <<>>,
                      !.total_processed = IF ok THEN @ + 1 ELSE @,
                      !.anomaly_count = IF ok /\ hit THEN @ + 1 ELSE @,
                      !.errors = IF ok THEN @ ELSE @ + 1]
    /\ UNCHANGED <<klines, anomalies, now, db, ctor_max_age_hours,
                   last_cleanup_time, last_sweep_at, lock, pc, loc,
                   collector, cstack, detector, manager,
                   cframe>>

\* the steps of a run
DetectStep ==
    \/ detect_volumes
    \/ detect_symbols
    \/ detect_symbols_fail
    \/ detect_done
    \/ detect_read
    \/ detect_read_fail
    \/ detect_skip
    \/ detect_insert
    \/ detect_inserted

----------------------------------------------------------------------------
(* SpecScore: scoring runs over stored histories.  The store holds, for each *)
(* symbol, nothing or one of four histories the backfill wrote at boot; the  *)
(* first run scores them at boot, then time passes and the ingest thread     *)
(* writes candles of the next bucket between the runs (a run works on the    *)
(* window it has read, a local copy).                                        *)
(* The store is configured with auto_cleanup = False, so that maybe_cleanup  *)
(* returns at once (the sweep is the subject of Spec).                       *)

MaxRuns == 2
MaxStops == 10

Histories == {"spike", "flat", "short", "zigzag", "calm"}

\* the number of candles of history h
HistoryLen(h) ==
    IF h = "short" THEN MIN_KLINES_REQUIRED - 1 ELSE MIN_KLINES_REQUIRED

\* the i-th candle (the last one is the latest bucket) of history h:
\* "spike" and "short" close at 100 and then at 110 with the last quote
\* volume tripled, "flat" closes at 100 throughout, "zigzag" alternates
\* between 100 and 110, "calm" between 1000 and 1001 (a move of 0.1%) with
\* a constant quote volume, "bump" closes at 100 but for the candle in the
\* middle and the last one, at 110; the high-low range is 0
HistoryCandle(h, i) ==
    LET n == HistoryLen(h)
        o == LatestOpenTime - (n - i) * BucketSeconds * MsPerSecond
        last == i = n /\ h \in {"spike", "short"}
        close == IF h = "calm" THEN (IF i % 2 = 0 THEN 1001 ELSE 1000)
                 ELSE IF \/ last
                         \/ h = "zigzag" /\ i % 2 = 0
                         \/ h = "bump" /\ i \in {n \div 2, n}
                      THEN 110 ELSE 100
        qv == IF last THEN 3 ELSE 1
    IN  [open_time |-> o, close_time |-> o + BucketSeconds * MsPerSecond - 1,
         open_price |-> close, high_price |-> close, low_price |-> close,
         close_price |-> close, volume |-> qv, quote_volume |-> qv,
         trades_count |-> 1]

HistoryRows(symbol, h) ==
    IF h = "none" THEN {}
    ELSE {KlineRow(symbol, HistoryCandle(h, i), BootTime) : i \in 1..HistoryLen(h)}

ScoreConfigs == {<<None, FALSE, 0>>}

\* the first symbol, the one the ingest thread writes to, has none or any
\* history but "calm"; the second none or "zigzag", or "calm" beside a first
\* symbol with none or "flat"
ScoreHistories ==
    {hs \in [Symbols -> Histories \cup {"none"}] :
        /\ hs["ABCUSDT"] # "calm"
        /\ \/ hs["XYZUSDT"] \in {"none", "zigzag"}
           \/ hs["XYZUSDT"] = "calm" /\ hs["ABCUSDT"] \in {"none", "flat"}}

InitScore ==
    /\ \E hs \in ScoreHistories :
          klines = UNION {HistoryRows(sym, hs[sym]) : sym \in Symbols}
    /\ anomalies = {}
    /\ now = BootTime
    /\ \E c \in ScoreConfigs :
          /\ ctor_max_age_hours = c[1]
          /\ db = NewDatabase(c[1], c[2], c[3])
    /\ last_sweep_at = None
    /\ last_cleanup_time = 0
    /\ lock = NoLock
    /\ pc = [t \in Threads |-> "idle"]
    /\ loc = [t \in Threads |-> IdleLoc]
    /\ EngineInit

\* the candle of the bucket after the latest one, for the first symbol: a
\* close at 110
NextOpenTime == LatestOpenTime + BucketSeconds * MsPerSecond
ScoreKlineUpdates ==
    {[symbol |-> "ABCUSDT",
      kline_data |-> [HistoryCandle("flat", MIN_KLINES_REQUIRED) EXCEPT
                        !.open_time = NextOpenTime,
                        !.close_time = NextOpenTime + BucketSeconds * MsPerSecond - 1,
                        !.open_price = c, !.high_price = c, !.low_price = c,
                        !.close_price = c]] : c \in {110}}

\* a run is started directly
call_detect_anomalies ==
    /\ drun.pc = "idle"
    /\ pc["ingest"] = "idle"
    /\ drun.runs < MaxRuns
    /\ detect_anomalies_enter("idle")
    /\ UNCHANGED <<klines, anomalies, now, db, ctor_max_age_hours,
                   last_cleanup_time, last_sweep_at, lock, pc, loc,
                   collector, cstack, detector, manager,
                   cframe>>

ScoreIngest(t) ==
    \/ /\ drun.pc = "idle"
       /\ drun.runs > 0
       /\ \E u \in ScoreKlineUpdates :
             call_insert_kline(t, u.symbol, u.kline_data)
    \/ InsertKlineStep(t)
    \/ maybe_cleanup(t)

\* the clock, read between the runs and the writes
ScoreTick ==
    /\ drun.pc = "idle"
    /\ drun.runs > 0
    /\ \A t \in Threads : pc[t] = "idle"
    /\ Tick

NextScore ==
    \/ ScoreTick
    \/ call_detect_anomalies
    \/ DetectStep
    \/ AnomalyStep(ScoreThread)
    \/ maybe_cleanup(ScoreThread)
    \/ ScoreIngest("ingest")

SpecScore == InitScore /\ [][NextScore]_vars

----------------------------------------------------------------------------
(* Scoring: the key of a result *)

AnomalyKey(r) == <<r.symbol, r.timestamp, r.interval_type>>

\* the result the scoring thread is writing
WrittenResult == loc[ScoreThread].arg.anomaly_data

\* the latest stored candle of a symbol
LatestStored(K, symbol) ==
    CHOOSE r \in K : /\ r.symbol = symbol
                     /\ \A q \in K : q.symbol = symbol => q.open_time <= r.open_time

\* C11: the anomaly table holds at most one row per (symbol, timestamp,
\* interval_type); the key's timestamp is the bucket start, in seconds, of the
\* symbol's latest stored candle when the run read its window; and the write
\* of a result replaces the row stored under its key, leaving the rows of the
\* other keys alone.
C11_OneResultPerBucket ==
    [][/\ \A a, b \in anomalies' : AnomalyKey(a) = AnomalyKey(b) => a = b
       /\ detect_read =>
             drun'.klines[Len(drun'.klines)] = LatestStored(klines, drun'.symbol)
       /\ detect_insert =>
             /\ WrittenResult'.symbol = drun.symbol
             /\ WrittenResult'.interval_type = "15m"
             /\ WrittenResult'.timestamp * MsPerSecond
                  = drun.klines[Len(drun.klines)].open_time
             /\ WrittenResult'.timestamp % BucketSeconds = 0
       /\ insert_anomaly_commit(ScoreThread) =>
             /\ \E r \in anomalies' :
                   /\ AnomalyKey(r) = AnomalyKey(WrittenResult)
                   /\ r.anomaly_score = WrittenResult.anomaly_score
                   /\ r.created_at = now
             /\ {r \in anomalies' : AnomalyKey(r) # AnomalyKey(WrittenResult)}
                  = {r \in anomalies : AnomalyKey(r) # AnomalyKey(WrittenResult)}
      ]_vars

\* a second run has just replaced the row an earlier run wrote for the same
\* bucket, at a later time
C11_Witness ==
    /\ pc[ScoreThread] = "mc_check"
    /\ loc[ScoreThread].op = "insert_anomaly"
    /\ loc[ScoreThread].before = "stored"
    /\ drun.runs = MaxRuns
    /\ now > BootTime
    /\ \E r \in anomalies : /\ AnomalyKey(r) = AnomalyKey(WrittenResult)
                            /\ r.created_at = now

----------------------------------------------------------------------------
(* Scoring: which symbols a run writes *)

\* the scoring thread is inside insert_anomaly, before the commit or after it
Upserting == pc[ScoreThread] \in {"ia_lock", "ia_txn", "mc_check"}

\* the detector thread takes a step of the run
RunStep == drun' # drun

\* no symbol twice in a sequence
Distinct(sq) == \A i, j \in DOMAIN sq : sq[i] = sq[j] => i = j

\* the store holds history h for a symbol, as the backfill wrote it
Holds(symbol, h) == HistoryRows(symbol, h) \subseteq klines

\* the rows of the anomaly table of a symbol
ResultsOf(symbol) == {r \in anomalies : r.symbol = symbol}

\* C17: a run never upserts a row for a symbol whose history, as read in that
\* run, has fewer than MIN_KLINES_REQUIRED candles: the scoring thread is
\* inside insert_anomaly only for a window of at least that length.
C17_NoRowBelowMinimumWindow ==
    Upserting =>
        /\ drun.pc = "dt_insert"
        /\ Len(drun.klines) >= MIN_KLINES_REQUIRED
        /\ WrittenResult.symbol = drun.symbol

\* a run over a 15-candle history has ended without an error and has written
\* nothing for its symbol
C17_Witness ==
    /\ drun.pc = "idle"
    /\ drun.runs = 1
    /\ drun.errors = 0
    /\ drun.total_processed = 0
    /\ Holds("ABCUSDT", "short")
    /\ ResultsOf("ABCUSDT") = {}

\* C18: when the absolute return of the latest candle of the window is below
\* MIN_ABS_RETURN, the run's step for the symbol writes and replaces no row,
\* logs no error and goes on to the next symbol of its list; and no result is
\* ever written from such a window.
C18_BelowFloorSkipped ==
    [][/\ (/\ drun.pc = "dt_analyze"
           /\ Len(drun.klines) >= MIN_KLINES_REQUIRED
           /\ BelowFloor(drun.klines)
           /\ RunStep)
          => /\ drun'.pc = "dt_next"
             /\ drun'.todo = drun.todo
             /\ drun'.errors = drun.errors
             /\ anomalies' = anomalies
             /\ pc' = pc
       /\ drun'.pc = "dt_insert" => ~BelowFloor(drun'.klines)
      ]_vars

\* a run over a flat history of the first symbol and a zigzag history of the
\* second has ended without an error: it wrote the second symbol's result
\* and nothing for the first
C18_Witness ==
    /\ drun.pc = "idle"
    /\ drun.runs = 1
    /\ drun.errors = 0
    /\ drun.total_processed = 1
    /\ Holds("ABCUSDT", "flat")
    /\ Holds("XYZUSDT", "zigzag")
    /\ ResultsOf("ABCUSDT") = {}
    /\ ResultsOf("XYZUSDT") # {}

\* C19 (as claimed): for every symbol whose window has at least
\* MIN_KLINES_REQUIRED candles the run upserts a row.
C19_OneResultPerSymbol ==
    [][(/\ drun.pc = "dt_analyze"
        /\ Len(drun.klines) >= MIN_KLINES_REQUIRED
        /\ RunStep)
       => drun'.pc = "dt_insert"]_vars

\* C19 (amended): a run visits each stored symbol once; for every symbol whose
\* window has at least MIN_KLINES_REQUIRED candles and whose latest absolute
\* return is not below MIN_ABS_RETURN it calls the upsert once, with the
\* result of the analysis whether that is an anomaly or not, and the commit
\* of that call leaves exactly one row under the result's key.
C19_OneResultPerScoredSymbol ==
    [][/\ (/\ drun.pc = "dt_analyze"
           /\ Len(drun.klines) >= MIN_KLINES_REQUIRED
           /\ ~BelowFloor(drun.klines)
           /\ RunStep)
          => /\ drun'.pc = "dt_insert"
             /\ WrittenResult' = RunResult
             /\ WrittenResult'.symbol = drun.symbol
       /\ Distinct(drun'.todo)
       /\ \A i \in DOMAIN drun'.todo : drun'.todo[i] # drun'.symbol
       /\ insert_anomaly_commit(ScoreThread) =>
             Cardinality({r \in anomalies' :
                            AnomalyKey(r) = AnomalyKey(WrittenResult)}) = 1
      ]_vars

\* a run has ended without an error after writing one result, which is no
\* anomaly: the zigzag history's
C19_Witness ==
    /\ drun.pc = "idle"
    /\ drun.runs = 1
    /\ drun.errors = 0
    /\ drun.total_processed = 1
    /\ drun.anomaly_count = 0
    /\ Holds("XYZUSDT", "zigzag")
    /\ ResultsOf("XYZUSDT") # {}

----------------------------------------------------------------------------
(* Scoring: the end-to-end scenario *)

\* the window is the scenario's: 16 candles, closes 100 fifteen times and
\* then 110, quote volumes constant except the last one tripled
IsSpike(rows) ==
    /\ Len(rows) = MIN_KLINES_REQUIRED
    /\ \A i \in 1..(Len(rows) - 1) :
          /\ rows[i].close_price = 100
          /\ rows[i].quote_volume = rows[1].quote_volume
    /\ rows[Len(rows)].close_price = 110
    /\ rows[Len(rows)].quote_volume = 3 * rows[1].quote_volume

\* the run is writing the result of the scenario's window
WritesSpike == drun.pc = "dt_insert" /\ Upserting /\ IsSpike(drun.klines)

Contains(sq, x) == \E i \in DOMAIN sq : sq[i] = x

C21_SpikeScoreAboveThreshold ==
    WritesSpike => WrittenResult.anomaly_score > ANOMALY_SCORE_THRESHOLD

\* the window has at least the minimum length, closes that alternate between
\* 1000 and 1001 (within 0.1% of 1000) and one quote volume throughout
IsCalm(rows) ==
    /\ Len(rows) >= MIN_KLINES_REQUIRED
    /\ \A i \in DOMAIN rows :
          /\ rows[i].close_price \in {1000, 1001}
          /\ rows[i].quote_volume = rows[1].quote_volume
    /\ \A i \in 1..(Len(rows) - 1) :
          rows[i + 1].close_price # rows[i].close_price

\* C22: the step of a run that has read a window of at least the minimum
\* length with closes oscillating within 0.1% and a flat volume goes on to
\* write a result for the symbol with is_anomaly = false and the normal tag
\* alone.
C22_CalmWindowWrittenNormal ==
    [][(drun.pc = "dt_analyze" /\ IsCalm(drun.klines) /\ RunStep)
          => /\ drun'.pc = "dt_insert"
             /\ WrittenResult'.symbol = drun.symbol
             /\ ~WrittenResult'.is_anomaly
             /\ WrittenResult'.anomaly_reasons = <<NormalTag>>]_vars

----------------------------------------------------------------------------
(* SpecAnalyze: scoring runs over one symbol's window of 16 candles, drawn   *)
(* from windows that make each of the threshold tests fire and not fire: the *)
(* closes of a spike, zigzag, flat or bump, one volume and one high-low     *)
(* range for the candle in the middle of the history and for the latest     *)
(* candle, and a base volume for the others.                                 *)

Shapes == {"spike", "zigzag", "flat", "bump"}
Volumes == {1, 3}
Ranges == {0, 10}
MidCandle == MIN_KLINES_REQUIRED \div 2

\* <<shape, base volume, volume and range of the middle candle, volume and
\* range of the latest candle>>
Windows ==
    {w \in [shape : Shapes, base : Volumes, hv : Volumes, hr : Ranges,
            cv : Volumes, cr : Ranges] :
        w.shape = "flat" => (w.base = 1 /\ w.hv = 1 /\ w.hr = 0)}

WindowCandle(w, i) ==
    LET c == HistoryCandle(w.shape, i)
        qv == IF i = MIN_KLINES_REQUIRED THEN w.cv
              ELSE IF i = MidCandle THEN w.hv ELSE w.base
        range == IF i = MIN_KLINES_REQUIRED THEN w.cr
                 ELSE IF i = MidCandle THEN w.hr ELSE 0
    IN  [c EXCEPT !.volume = qv, !.quote_volume = qv,
                  !.high_price = c.close_price + range]

WindowRows(symbol, w) ==
    {KlineRow(symbol, WindowCandle(w, i), BootTime) : i \in 1..MIN_KLINES_REQUIRED}

InitAnalyze ==
    /\ \E w \in Windows : klines = WindowRows("ABCUSDT", w)
    /\ anomalies = {}
    /\ now = BootTime
    /\ \E c \in ScoreConfigs :
          /\ ctor_max_age_hours = c[1]
          /\ db = NewDatabase(c[1], c[2], c[3])
    /\ last_sweep_at = None
    /\ last_cleanup_time = 0
    /\ lock = NoLock
    /\ pc = [t \in Threads |-> "idle"]
    /\ loc = [t \in Threads |-> IdleLoc]
    /\ EngineInit

NextAnalyze ==
    \/ call_detect_anomalies
    \/ DetectStep
    \/ AnomalyStep(ScoreThread)
    \/ maybe_cleanup(ScoreThread)

SpecAnalyze == InitAnalyze /\ [][NextAnalyze]_vars

\* the threshold tests of a result, on the values it carries (z-scores in
\* hundredths, the percentile in hundredths of a percent)
PriceTest(r) ==
    \/ r.price_zscore >= PRICE_Z_THRESHOLD
    \/ r.price_percentile >= PRICE_PERCENTILE * Hundredths
VolumeTest(r) == Abs(r.volume_zscore) >= VOLUME_Z_THRESHOLD
VolatilityTest(r) == r.volatility_zscore >= VOLATILITY_Z_THRESHOLD

\* the tags of a result say what the claim says of them
TagsConsistent(r) ==
    /\ r.anomaly_reasons # <<>>
    /\ r.is_anomaly <=> \E i \in DOMAIN r.anomaly_reasons :
                           r.anomaly_reasons[i] # NormalTag
    /\ Contains(r.anomaly_reasons, NormalTag) => r.anomaly_reasons = <<NormalTag>>
    /\ Contains(r.anomaly_reasons, PriceTag) <=> PriceTest(r)
    /\ Contains(r.anomaly_reasons, VolumeTag) <=> VolumeTest(r)
    /\ Contains(r.anomaly_reasons, VolatilityTag) <=> VolatilityTest(r)

\* C24: in every result the scorer produces, is_anomaly is true iff a tag
\* other than normal is among the reasons, the normal tag is there only as the
\* sole tag, and the price, volume and volatility tags are there exactly when
\* their threshold tests hold.
C24_TagsMatchTests ==
    /\ (drun.pc = "dt_analyze" /\ RunResult # NoResult) => TagsConsistent(RunResult)
    /\ (drun.pc = "dt_insert" /\ Upserting) => TagsConsistent(WrittenResult)

\* a run is writing a result tagged volume and volatility without the price
\* tag: the volume test fired on a negative z-score, the price test did not
C24_Witness ==
    /\ drun.pc = "dt_insert"
    /\ Upserting
    /\ WrittenResult.anomaly_reasons = <<VolumeTag, VolatilityTag>>
    /\ WrittenResult.volume_zscore < 0
    /\ WrittenResult.is_anomaly

----------------------------------------------------------------------------
(* Scoring: an error while a symbol is processed *)

InLoop(r) == r.pc \in {"dt_next", "dt_analyze", "dt_insert"}

\* C25: a step of a run that is inside the loop over the symbols either stays
\* in the loop, with the symbols still to do unchanged or less the one it
\* takes, or ends the run with no symbol left to do; a step that counts an
\* error of a read or of a write goes on with the loop, and no step of the
\* scoring thread removes a row of the anomaly table or changes one of
\* another symbol.
C25_SymbolErrorDoesNotEndRun ==
    [][/\ (InLoop(drun) /\ RunStep) =>
             \/ /\ InLoop(drun')
                /\ \/ drun'.todo = drun.todo
                   \/ drun.todo # <<>> /\ drun'.todo = Tail(drun.todo)
                /\ drun'.runs = drun.runs
             \/ /\ drun.pc = "dt_next"
                /\ drun.todo = <<>>
                /\ ~InLoop(drun')
       /\ (InLoop(drun) /\ drun'.errors > drun.errors) =>
             /\ drun'.pc = "dt_next"
             /\ anomalies' = anomalies
       /\ (drun.pc # "idle") =>
             \A r \in anomalies :
                \/ r \in anomalies'
                \/ /\ insert_anomaly_commit(ScoreThread)
                   /\ AnomalyKey(r) = AnomalyKey(WrittenResult)
      ]_vars

\* a run over two symbols with histories that score has ended: the
\* processing of one symbol raised, the result of the other one was written
\* and its row is there
C25_Witness ==
    /\ drun.pc = "idle"
    /\ drun.runs = 1
    /\ drun.errors = 1
    /\ drun.total_processed = 1
    /\ Holds("ABCUSDT", "spike")
    /\ Holds("XYZUSDT", "zigzag")
    /\ Cardinality(anomalies) = 1

----------------------------------------------------------------------------
(* Scoring: histories without variance *)

\* the history of a window's statistic has standard deviation 0
PriceFlat(rows) == Spread(AllButLast(AbsReturns(rows))) = 0
VolumeFlat(rows) ==
    Spread(AllButLast([i \in DOMAIN rows |-> rows[i].quote_volume])) = 0
VolatilityFlat(rows) == Spread(AllButLast(TrueRanges(rows))) = 0

\* C23: the step of a run on a window of at least the minimum length whose
\* last return is not below the floor calls insert_anomaly without an error,
\* whether or not a statistic's history has standard deviation 0, and in the
\* result it writes the z-score of each statistic whose history has standard
\* deviation 0 is 0.
C23_ZeroDeviationScoresZero ==
    [][(/\ drun.pc = "dt_analyze"
        /\ Len(drun.klines) >= MIN_KLINES_REQUIRED
        /\ ~BelowFloor(drun.klines)
        /\ RunStep)
          => /\ drun'.pc = "dt_insert"
             /\ drun'.errors = drun.errors
             /\ PriceFlat(drun.klines) => WrittenResult'.price_zscore = 0
             /\ VolumeFlat(drun.klines) => WrittenResult'.volume_zscore = 0
             /\ VolatilityFlat(drun.klines) =>
                   WrittenResult'.volatility_zscore = 0]_vars

\* the run is writing the result of the scenario's window, whose three
\* histories have standard deviation 0 while its last return and volume
\* differ from their means: the three z-scores are 0
C23_Witness ==
    /\ WritesSpike
    /\ pc[ScoreThread] = "ia_lock"
    /\ PriceFlat(drun.klines)
    /\ VolumeFlat(drun.klines)
    /\ VolatilityFlat(drun.klines)
    /\ WrittenResult.price_zscore = 0
    /\ WrittenResult.volume_zscore = 0
    /\ WrittenResult.volatility_zscore = 0
    /\ drun.errors = 0

----------------------------------------------------------------------------
(* The scoring engine's life cycle (src/anomaly_detector.py, start and stop).*)
(* start_detector_background creates the detector thread, which calls        *)
(* start() once; stop() is called by the thread of SystemManager.            *)

\* if self.running: return
detector_start ==
    /\ drun.pc = "st_check"
    /\ drun' = [drun EXCEPT !.pc = IF detector.running THEN "returned"
                                   ELSE "st_set"]
    /\ UNCHANGED <<klines, anomalies, now, db, ctor_max_age_hours,
                   last_cleanup_time, last_sweep_at, lock, pc, loc,
                   collector, cstack, detector, manager,
                   cframe>>

\* self.running = True
detector_start_set ==
    /\ drun.pc = "st_set"
    /\ detector' = [detector EXCEPT !.running = TRUE]
    /\ drun' = [drun EXCEPT !.pc = "st_run"]
    /\ UNCHANGED <<klines, anomalies, now, db, ctor_max_age_hours,
                   last_cleanup_time, last_sweep_at, lock, pc, loc,
                   collector, cstack, manager,
                   cframe>>

\* self.detect_anomalies(): the immediate run
detector_start_run ==
    /\ drun.pc = "st_run"
    /\ drun.runs < MaxRuns
    /\ detect_anomalies_enter("st_register")
    /\ UNCHANGED <<klines, anomalies, now, db, ctor_max_age_hours,
                   last_cleanup_time, last_sweep_at, lock, pc, loc,
                   collector, cstack, detector, manager,
                   cframe>>

\* schedule.every().minute.do(self.detect_anomalies)
detector_start_register ==
    /\ drun.pc = "st_register"
    /\ detector' = [detector EXCEPT !.jobs = 1]
    /\ drun' = [drun EXCEPT !.pc = "loop_test"]
    /\ UNCHANGED <<klines, anomalies, now, db, ctor_max_age_hours,
                   last_cleanup_time, last_sweep_at, lock, pc, loc,
                   collector, cstack, manager,
                   cframe>>

\* while self.running:
detector_loop_test ==
    /\ drun.pc = "loop_test"
    /\ drun' = [drun EXCEPT !.pc = IF detector.running THEN "loop_pending"
                                   ELSE "returned"]
    /\ UNCHANGED <<klines, anomalies, now, db, ctor_max_age_hours,
                   last_cleanup_time, last_sweep_at, lock, pc, loc,
                   collector, cstack, detector, manager,
                   cframe>>

\* schedule.run_pending(): the job, if there is one and its minute is over,
\* is run
detector_run_pending ==
    /\ drun.pc = "loop_pending"
    /\ detector.jobs > 0
    /\ drun.runs < MaxRuns
    /\ detect_anomalies_enter("loop_sleep")
    /\ UNCHANGED <<klines, anomalies, now, db, ctor_max_age_hours,
                   last_cleanup_time, last_sweep_at, lock, pc, loc,
                   collector, cstack, detector, manager,
                   cframe>>

\* schedule.run_pending(): no job is due
detector_none_pending ==
    /\ drun.pc = "loop_pending"
    /\ drun' = [drun EXCEPT !.pc = "loop_sleep"]
    /\ UNCHANGED <<klines, anomalies, now, db, ctor_max_age_hours,
                   last_cleanup_time, last_sweep_at, lock, pc, loc,
                   collector, cstack, detector, manager,
                   cframe>>

\* time.sleep(1)
detector_loop_sleep ==
    /\ drun.pc = "loop_sleep"
    /\ drun' = [drun EXCEPT !.pc = "loop_test"]
    /\ UNCHANGED <<klines, anomalies, now, db, ctor_max_age_hours,
                   last_cleanup_time, last_sweep_at, lock, pc, loc,
                   collector, cstack, detector, manager,
                   cframe>>

\* stop(): self.running = False
detector_stop ==
    /\ manager.pc = "idle"
    /\ manager.stops < MaxStops
    /\ detector' = [detector EXCEPT !.running = FALSE]
    /\ manager' = [manager EXCEPT !.pc = "ds_clear"]
    /\ UNCHANGED <<klines, anomalies, now, db, ctor_max_age_hours,
                   last_cleanup_time, last_sweep_at, lock, pc, loc,
                   collector, cstack, drun,
                   cframe>>

\* stop(): schedule.clear(), self.session.close(), return
detector_stop_clear ==
    /\ manager.pc = "ds_clear"
    /\ detector' = [detector EXCEPT !.jobs = 0]
    /\ manager' = [manager EXCEPT !.pc = "idle", !.stops = manager.stops + 1]
    /\ UNCHANGED <<klines, anomalies, now, db, ctor_max_age_hours,
                   last_cleanup_time, last_sweep_at, lock, pc, loc,
                   collector, cstack, drun,
                   cframe>>

DetectorStep ==
    \/ detector_start
    \/ detector_start_set
    \/ detector_start_run
    \/ detector_start_register
    \/ detector_loop_test
    \/ detector_run_pending
    \/ detector_none_pending
    \/ detector_loop_sleep

----------------------------------------------------------------------------
(* SpecDetector: the detector thread is about to call start(), the store     *)
(* holds a scored and a short history, and stop() may be called at any       *)
(* moment.                                                                   *)

InitDetector ==
    /\ klines = HistoryRows("ABCUSDT", "spike") \cup HistoryRows("XYZUSDT", "short")
    /\ anomalies = {}
    /\ now = BootTime
    /\ \E c \in ScoreConfigs :
          /\ ctor_max_age_hours = c[1]
          /\ db = NewDatabase(c[1], c[2], c[3])
    /\ last_sweep_at = None
    /\ last_cleanup_time = 0
    /\ lock = NoLock
    /\ pc = [t \in Threads |-> "idle"]
    /\ loc = [t \in Threads |-> IdleLoc]
    /\ collector = NewCollector
    /\ cstack = <<>>
    /\ cframe = IdleFrame
    /\ detector = NewDetector
    /\ drun = [IdleRun EXCEPT !.pc = "st_check"]
    /\ manager = IdleManager

NextDetector ==
    \/ DetectorStep
    \/ DetectStep
    \/ AnomalyStep(ScoreThread)
    \/ maybe_cleanup(ScoreThread)
    \/ detector_stop
    \/ detector_stop_clear

SpecDetector == InitDetector /\ [][NextDetector]_vars

\* a call of stop() has returned and none is under way
Stopped == manager.stops > 0 /\ manager.pc = "idle"

\* a scoring run begins in this step
RunBegins == drun'.runs = drun.runs + 1

\* C16 (as claimed): once stop() has returned, no scoring run begins.
C16_NoRunAfterStop == [][Stopped => ~RunBegins]_vars

\* SpecDetectorLive: the detector thread keeps taking the steps of start()
\* (the thread is scheduled), and the job registered with schedule becomes
\* due again and again (every minute) while the loop polls it
SpecDetectorLive ==
    /\ InitDetector
    /\ [][NextDetector]_vars
    /\ WF_vars(DetectorStep)
    /\ SF_vars(detector_run_pending)

\* a run has ended in its caller with an error and without a result written,
\* and the bound on the runs leaves room for another one
RunFailed ==
    /\ drun.pc \in {"st_register", "loop_sleep"}
    /\ drun.errors > 0
    /\ drun.total_processed = 0
    /\ drun.runs < MaxRuns

\* stop() has been called
StopCalled == manager.stops > 0 \/ manager.pc # "idle"

\* C26: a failure of the enumeration of the symbols ends the run where it was
\* called from, start() or the loop of start(), with no row written by the
\* run and the engine's running flag and job as they were; and after a run
\* that failed so, unless stop() is called, a new run begins.
C26_EnumerationFailureRetried ==
    /\ [][(drun.pc = "dt_symbols" /\ drun'.errors > drun.errors) =>
             /\ anomalies' = anomalies
             /\ drun'.total_processed = 0
             /\ detector' = detector
             /\ drun'.pc = drun.ret
             /\ drun.ret \in {"st_register", "loop_sleep"}]_vars
    /\ RunFailed ~> (StopCalled \/ drun.pc = "dt_volumes")

\* the scheduled second run has ended with an error and nothing written by
\* it, no stop() was called, the engine is running with its job registered
C26_Witness ==
    /\ drun.pc = "loop_sleep"
    /\ drun.runs = 2
    /\ drun.errors = 1
    /\ drun.total_processed = 0
    /\ ~StopCalled
    /\ detector.running
    /\ detector.jobs = 1

----------------------------------------------------------------------------
(* The ingestion engine (src/ws_collector.py).  The collector thread runs    *)
(* `while True: collector.start()`; cstack is its stack of positions, the    *)
(* innermost last: on_close is called from inside run_forever and calls      *)
(* start() itself.  run_forever connects, calls on_open, hands the messages  *)
(* to on_message and, when the connection fails, is lost or is closed, calls *)
(* on_close and returns.  stop() is called by the thread of SystemManager.   *)

\* self.max_reconnects = 10
max_reconnects == 10
\* self.config["HISTORY_KLINES"]
HISTORY_KLINES == 16

Top == cstack[Len(cstack)]

Replace(label) == cstack' = [cstack EXCEPT ![Len(cstack)] = label]

Push(label) == cstack' = Append(cstack, label)

Pop == cstack' = SubSeq(cstack, 1, Len(cstack) - 1)

\* the symbols get_active_symbols may return
Universes == {{}, {"ABCUSDT"}}

\* the klines table after fetch_initial_klines has stored a page of
\* HISTORY_KLINES candles for every symbol that has fewer rows than that
Backfilled(K, symbols) ==
    LET short == {sym \in symbols :
                    Cardinality({r \in K : r.symbol = sym}) < HISTORY_KLINES}
        page == UNION {{KlineRow(sym, HistoryCandle("flat", i), now) :
                          i \in 1..HISTORY_KLINES} : sym \in short}
    IN  {r \in K : \A row \in page : ~KlineConflict(r, row)} \cup page

\* while True: collector.start()
collector_loop ==
    /\ Top = "loop"
    /\ Push("start")
    /\ UNCHANGED <<klines, anomalies, now, db, ctor_max_age_hours,
                   last_cleanup_time, last_sweep_at, lock, pc, loc,
                   collector, detector, drun, manager,
                   cframe>>

\* start(): if self.running: return
collector_start ==
    /\ Top = "start"
    /\ IF collector.running THEN Pop ELSE Replace("start_set")
    /\ UNCHANGED <<klines, anomalies, now, db, ctor_max_age_hours,
                   last_cleanup_time, last_sweep_at, lock, pc, loc,
                   collector, detector, drun, manager,
                   cframe>>

\* self.running = True
collector_start_set ==
    /\ Top = "start_set"
    /\ collector' = [collector EXCEPT !.running = TRUE]
    /\ Replace("select")
    /\ UNCHANGED <<klines, anomalies, now, db, ctor_max_age_hours,
                   last_cleanup_time, last_sweep_at, lock, pc, loc,
                   detector, drun, manager,
                   cframe>>

\* self.symbols = self.get_active_symbols(); if not self.symbols: return
collector_select ==
    /\ Top = "select"
    /\ \E u \in Universes :
          /\ collector' = [collector EXCEPT !.symbols = u]
          /\ IF u = {} THEN Pop ELSE Replace("backfill")
    /\ UNCHANGED <<klines, anomalies, now, db, ctor_max_age_hours,
                   last_cleanup_time, last_sweep_at, lock, pc, loc,
                   detector, drun, manager,
                   cframe>>

\* a request of get_active_symbols raised: except Exception: self.running = False
collector_select_fail ==
    /\ Top = "select"
    /\ collector' = [collector EXCEPT !.running = FALSE]
    /\ Pop
    /\ UNCHANGED <<klines, anomalies, now, db, ctor_max_age_hours,
                   last_cleanup_time, last_sweep_at, lock, pc, loc,
                   detector, drun, manager,
                   cframe>>

\* self.fetch_initial_klines(self.symbols): the pages are stored, or the
\* requests failed and nothing is
collector_backfill ==
    /\ Top = "backfill"
    /\ klines' \in {klines, Backfilled(klines, collector.symbols)}
    /\ Replace("connect")
    /\ UNCHANGED <<anomalies, now, db, ctor_max_age_hours,
                   last_cleanup_time, last_sweep_at, lock, pc, loc,
                   collector, detector, drun, manager,
                   cframe>>

\* variant: on_open leaves self.reconnect_count as it is
collector_open_no_reset ==
    /\ Top = "connect"
    /\ collector' = [collector EXCEPT !.ws = "open"]
    /\ Replace("streaming")
    /\ UNCHANGED <<klines, anomalies, now, db, ctor_max_age_hours,
                   last_cleanup_time, last_sweep_at, lock, pc, loc,
                   detector, drun, manager,
                   cframe>>

\* self.ws = websocket.WebSocketApp(...); self.ws.run_forever(): the
\* connection opens and on_open sets self.reconnect_count = 0
collector_open ==
    /\ Top = "connect"
    /\ collector' = [collector EXCEPT !.ws = "open", !.reconnect_count = 0]
    /\ Replace("streaming")
    /\ UNCHANGED <<klines, anomalies, now, db, ctor_max_age_hours,
                   last_cleanup_time, last_sweep_at, lock, pc, loc,
                   detector, drun, manager,
                   cframe>>

\* the connection cannot be opened: on_error, then on_close
collector_refused ==
    /\ Top = "connect"
    /\ collector' = [collector EXCEPT !.ws = "closed"]
    /\ cstack' = [cstack EXCEPT ![Len(cstack)] = "closed"] \o <<"on_close">>
    /\ UNCHANGED <<klines, anomalies, now, db, ctor_max_age_hours,
                   last_cleanup_time, last_sweep_at, lock, pc, loc,
                   detector, drun, manager,
                   cframe>>

\* on_message: the candle of the latest bucket is stored
collector_on_message ==
    /\ Top = "streaming"
    /\ collector.ws = "open"
    /\ \E sym \in collector.symbols, kd \in KlineDataAt({LatestOpenTime}) :
          klines' = InsertOrReplaceKline(klines, KlineRow(sym, kd, now))
    /\ UNCHANGED <<anomalies, now, db, ctor_max_age_hours,
                   last_cleanup_time, last_sweep_at, lock, pc, loc,
                   collector, cstack, detector, drun, manager,
                   cframe>>

\* variant: on_close is called while run_forever keeps the connection (as
\* with run_forever(reconnect=...)): the frame stays in streaming
collector_lost_still_streaming ==
    /\ Top = "streaming"
    /\ cstack' = cstack \o <<"on_close">>
    /\ UNCHANGED <<klines, anomalies, now, db, ctor_max_age_hours,
                   last_cleanup_time, last_sweep_at, lock, pc, loc,
                   collector, detector, drun, manager,
                   cframe>>

\* the connection is lost, or stop() has closed it: on_close is called
collector_lost ==
    /\ Top = "streaming"
    /\ collector' = [collector EXCEPT !.ws = "closed"]
    /\ cstack' = [cstack EXCEPT ![Len(cstack)] = "closed"] \o <<"on_close">>
    /\ UNCHANGED <<klines, anomalies, now, db, ctor_max_age_hours,
                   last_cleanup_time, last_sweep_at, lock, pc, loc,
                   detector, drun, manager,
                   cframe>>

\* on_close: if self.running and self.reconnect_count < self.max_reconnects
collector_on_close ==
    /\ Top = "on_close"
    /\ IF collector.running /\ collector.reconnect_count < max_reconnects
       THEN Replace("on_close_sleep")
       ELSE Pop
    /\ UNCHANGED <<klines, anomalies, now, db, ctor_max_age_hours,
                   last_cleanup_time, last_sweep_at, lock, pc, loc,
                   collector, detector, drun, manager,
                   cframe>>

\* time.sleep(5); self.reconnect_count += 1; self.start()
collector_reconnect ==
    /\ Top = "on_close_sleep"
    /\ collector' = [collector EXCEPT !.reconnect_count = @ + 1]
    /\ cstack' = [cstack EXCEPT ![Len(cstack)] = "on_close_return"] \o <<"start">>
    /\ UNCHANGED <<klines, anomalies, now, db, ctor_max_age_hours,
                   last_cleanup_time, last_sweep_at, lock, pc, loc,
                   detector, drun, manager,
                   cframe>>

\* on_close returns into run_forever; run_forever returns and so does start()
collector_return ==
    /\ Top \in {"on_close_return", "closed"}
    /\ Pop
    /\ UNCHANGED <<klines, anomalies, now, db, ctor_max_age_hours,
                   last_cleanup_time, last_sweep_at, lock, pc, loc,
                   collector, detector, drun, manager,
                   cframe>>

\* stop(): self.running = False
collector_stop ==
    /\ manager.pc = "idle"
    /\ manager.stops < MaxStops
    /\ collector' = [collector EXCEPT !.running = FALSE]
    /\ manager' = [manager EXCEPT !.pc = "cs_close"]
    /\ UNCHANGED <<klines, anomalies, now, db, ctor_max_age_hours,
                   last_cleanup_time, last_sweep_at, lock, pc, loc,
                   cstack, detector, drun,
                   cframe>>

\* stop(): if self.ws: self.ws.close()
collector_stop_close ==
    /\ manager.pc = "cs_close"
    /\ collector' = [collector EXCEPT
                       !.ws = IF @ = "none" THEN "none" ELSE "closed"]
    /\ manager' = [manager EXCEPT !.pc = "idle", !.stops = manager.stops + 1]
    /\ UNCHANGED <<klines, anomalies, now, db, ctor_max_age_hours,
                   last_cleanup_time, last_sweep_at, lock, pc, loc,
                   cstack, detector, drun,
                   cframe>>

----------------------------------------------------------------------------
(* SpecCollector: the collector thread is in its loop, the store is empty;   *)
(* stop() may be called at any moment, up to MaxStops times.                 *)

InitCollector ==
    /\ klines = {}
    /\ anomalies = {}
    /\ now = BootTime
    /\ \E c \in ScoreConfigs :
          /\ ctor_max_age_hours = c[1]
          /\ db = NewDatabase(c[1], c[2], c[3])
    /\ last_sweep_at = None
    /\ last_cleanup_time = 0
    /\ lock = NoLock
    /\ pc = [t \in Threads |-> "idle"]
    /\ loc = [t \in Threads |-> IdleLoc]
    /\ collector = NewCollector
    /\ cstack = <<"loop">>
    /\ cframe = IdleFrame
    /\ detector = NewDetector
    /\ drun = IdleRun
    /\ manager = IdleManager

NextCollector ==
    \/ collector_loop
    \/ collector_start
    \/ collector_start_set
    \/ collector_select
    \/ collector_select_fail
    \/ collector_backfill
    \/ collector_open
    \/ collector_refused
    \/ collector_on_message
    \/ collector_lost
    \/ collector_on_close
    \/ collector_reconnect
    \/ collector_return
    \/ collector_stop
    \/ collector_stop_close

SpecCollector == InitCollector /\ [][NextCollector]_vars

\* the collector thread takes a step
CollectorStep == cstack' # cstack

\* C12 (as claimed): the start() that on_close calls after a connection loss
\* resumes at the selection of the universe.
C12_ReconnectResumesAtSelection ==
    [][(/\ Top = "start"
        /\ Len(cstack) > 1
        /\ cstack[Len(cstack) - 1] = "on_close_return"
        /\ CollectorStep)
       => Top' = "start_set"]_vars

\* C13 (as claimed): the reconnect counter never exceeds max_reconnects, and
\* after on_close has handled a connection loss with the counter at
\* max_reconnects the engine is no longer running.
C13_StoppedAtMaxReconnects ==
    [][/\ collector'.reconnect_count <= max_reconnects
       /\ (/\ Top = "on_close"
           /\ collector.reconnect_count = max_reconnects
           /\ CollectorStep)
          => ~collector'.running]_vars

\* C14 (as claimed): a start() attempt that ends because the selection
\* returned no symbol leaves the engine not marked running.
C14_EmptyUniverseBackToIdle ==
    [][(Top = "select" /\ CollectorStep /\ Top' # "backfill")
       => ~collector'.running]_vars

\* a call of stop() of the collector has returned and none is under way
CollectorStopped == manager.stops > 0 /\ manager.pc = "idle"

\* C15 (as claimed): once stop() has returned the engine stays stopped: it is
\* not marked running again and holds no open connection.
C15_StoppedIsTerminal ==
    [][CollectorStopped =>
          /\ ~collector'.running
          /\ collector'.ws # "open"]_vars

\* C28 (as claimed): when a request of the selection fails, the caller, start(),
\* receives an empty set of symbols (self.symbols is the empty set it was
\* handed), and the start attempt ends with the engine not marked running.
C28_FetchFailureGivesEmptySet ==
    [][collector_select_fail =>
          /\ collector'.symbols = {}
          /\ ~collector'.running
          /\ Len(cstack') < Len(cstack)]_vars

----------------------------------------------------------------------------
(* The selection of the universe (src/ws_collector.py, get_active_symbols). *)
(* exchange_data is the list under "symbols" of the exchangeInfo response,   *)
(* ticker_data the list of the ticker/24hr response, one entry per           *)
(* instrument.                                                               *)

\* self.config["MIN_VOL_24H"], self.config["TOP_N_SYMBOLS"]
MIN_VOL_24H == 5000
TOP_N_SYMBOLS == 150

\* s.get("contractType") == "PERPETUAL" and s.get("quoteAsset") == "USDT" and
\* s.get("status") == "TRADING"
IsPerpetual(s) ==
    /\ s.contractType = "PERPETUAL"
    /\ s.quoteAsset = "USDT"
    /\ s.status = "TRADING"

\* perpetual_symbols
PerpetualSymbols(exchange_data) ==
    {exchange_data[i].symbol : i \in {j \in DOMAIN exchange_data :
                                        IsPerpetual(exchange_data[j])}}

\* the items of the dict symbol_volumes, in the order of their insertion: the
\* tickers of perpetual symbols with quoteVolume >= min_vol (a ticker list
\* names each instrument once)
RECURSIVE SymbolVolumes(_, _, _)
SymbolVolumes(ticker_data, perpetual_symbols, min_vol) ==
    IF ticker_data = <<>> THEN <<>>
    ELSE LET ticker == Head(ticker_data)
             rest == SymbolVolumes(Tail(ticker_data), perpetual_symbols, min_vol)
         IN  IF ticker.symbol \in perpetual_symbols /\ ticker.quoteVolume >= min_vol
             THEN <<ticker>> \o rest
             ELSE rest

\* variant: the item is put before the items of the same volume
InsertBeforeTies(sorted, item) ==
    LET before == {i \in DOMAIN sorted : sorted[i].quoteVolume > item.quoteVolume}
    IN  SubSeq(sorted, 1, Cardinality(before)) \o <<item>>
            \o SubSeq(sorted, Cardinality(before) + 1, Len(sorted))

\* one item placed into a list sorted by descending volume, after the items
\* of the same volume (sorted() is stable, with reverse=True too)
InsertDescending(sorted, item) ==
    LET before == {i \in DOMAIN sorted : sorted[i].quoteVolume >= item.quoteVolume}
    IN  SubSeq(sorted, 1, Cardinality(before)) \o <<item>>
            \o SubSeq(sorted, Cardinality(before) + 1, Len(sorted))

\* sorted(symbol_volumes.items(), key=lambda x: x[1], reverse=True)
RECURSIVE SortedDescending(_)
SortedDescending(items) ==
    IF items = <<>> THEN <<>>
    ELSE InsertDescending(SortedDescending(AllButLast(items)), items[Len(items)])

\* [symbol for symbol, _ in sorted_symbols[:top_n]]
TopSymbols(sorted_symbols, top_n) ==
    [i \in 1..Min(top_n, Len(sorted_symbols)) |-> sorted_symbols[i].symbol]

\* get_active_symbols() on the two responses
get_active_symbols(exchange_data, ticker_data, min_vol, top_n) ==
    TopSymbols(SortedDescending(SymbolVolumes(ticker_data,
                                              PerpetualSymbols(exchange_data),
                                              min_vol)),
               top_n)

\* the elements of a list
Elements(sq) == {sq[i] : i \in DOMAIN sq}

\* the responses are in: the filter and the sort are computed, the list is
\* returned to start(), which stores it in self.symbols and returns if it is
\* empty
collector_selected ==
    /\ Top = "gs_filter"
    /\ LET top_symbols == get_active_symbols(cframe.exchange_data,
                                             cframe.ticker_data,
                                             cframe.min_vol, cframe.top_n)
       IN  /\ cframe' = [cframe EXCEPT !.top_symbols = top_symbols,
                                       !.returned = TRUE]
           /\ collector' = [collector EXCEPT !.symbols = Elements(top_symbols)]
           /\ IF top_symbols = <<>> THEN Pop ELSE Replace("backfill")
    /\ UNCHANGED <<klines, anomalies, now, db, ctor_max_age_hours,
                   last_cleanup_time, last_sweep_at, lock, pc, loc,
                   detector, drun, manager>>

----------------------------------------------------------------------------
(* SpecSelect: start() has set self.running and is in get_active_symbols,    *)
(* both responses received.  Three instruments; each response lists them in  *)
(* its own order; at most one instrument fails a test of the metadata or is  *)
(* missing from it; the volumes lie below, at and above the threshold.       *)

\* the instruments, in the order of the exchangeInfo response
InstrumentList == <<"AAAUSDT", "BBBUSDT", "CCCUSDT">>

Instruments == {InstrumentList[i] : i \in DOMAIN InstrumentList}

InstrumentKinds == {"perpetual", "quarterly", "busd", "halted", "unlisted"}

\* the exchangeInfo entry of an instrument of a kind
Metadata(symbol, kind) ==
    [symbol |-> symbol,
     contractType |-> IF kind = "quarterly" THEN "CURRENT_QUARTER" ELSE "PERPETUAL",
     quoteAsset |-> IF kind = "busd" THEN "BUSD" ELSE "USDT",
     status |-> IF kind = "halted" THEN "SETTLING" ELSE "TRADING"]

\* the exchangeInfo list of the instruments todo, an unlisted one left out
RECURSIVE ExchangeList(_, _)
ExchangeList(kinds, todo) ==
    IF todo = <<>> THEN <<>>
    ELSE (IF kinds[Head(todo)] = "unlisted" THEN <<>>
          ELSE <<Metadata(Head(todo), kinds[Head(todo)])>>)
         \o ExchangeList(kinds, Tail(todo))

ExchangeDatas ==
    {ExchangeList(kinds, InstrumentList) :
        kinds \in {k \in [Instruments -> InstrumentKinds] :
                     Cardinality({x \in Instruments : k[x] # "perpetual"}) <= 1}}

QuoteVolumes == {MIN_VOL_24H - 1, MIN_VOL_24H, MIN_VOL_24H + 1000}

TickerDatas ==
    {[i \in 1..Len(order) |-> [symbol |-> order[i], quoteVolume |-> v[order[i]]]] :
        order \in Orders(Instruments), v \in [Instruments -> QuoteVolumes]}

\* the values of TOP_N_SYMBOLS explored
TopNs == {2, TOP_N_SYMBOLS}

InitSelect ==
    /\ klines = {}
    /\ anomalies = {}
    /\ now = BootTime
    /\ \E c \in ScoreConfigs :
          /\ ctor_max_age_hours = c[1]
          /\ db = NewDatabase(c[1], c[2], c[3])
    /\ last_sweep_at = None
    /\ last_cleanup_time = 0
    /\ lock = NoLock
    /\ pc = [t \in Threads |-> "idle"]
    /\ loc = [t \in Threads |-> IdleLoc]
    /\ collector = [NewCollector EXCEPT !.running = TRUE]
    /\ cstack = <<"loop", "gs_filter">>
    /\ \E e \in ExchangeDatas, t \in TickerDatas, n \in TopNs :
          cframe = [method |-> "get_active_symbols", exchange_data |-> e,
                    ticker_data |-> t, min_vol |-> MIN_VOL_24H, top_n |-> n,
                    top_symbols |-> <<>>, returned |-> FALSE]
    /\ detector = NewDetector
    /\ drun = IdleRun
    /\ manager = IdleManager

NextSelect == collector_selected

SpecSelect == InitSelect /\ [][NextSelect]_vars

----------------------------------------------------------------------------
(* The contract of the selection, stated on the two responses.               *)

\* the position of an instrument in the ticker response, 0 if it has none
TickerIndex(f, symbol) ==
    IF \E i \in DOMAIN f.ticker_data : f.ticker_data[i].symbol = symbol
    THEN CHOOSE i \in DOMAIN f.ticker_data : f.ticker_data[i].symbol = symbol
    ELSE 0

\* the 24h notional of an instrument that has a ticker
Notional(f, symbol) == f.ticker_data[TickerIndex(f, symbol)].quoteVolume

\* the instruments that satisfy the filtering predicate
Eligible(f) ==
    {symbol \in Instruments :
        /\ \E i \in DOMAIN f.exchange_data :
              /\ f.exchange_data[i].symbol = symbol
              /\ f.exchange_data[i].contractType = "PERPETUAL"
              /\ f.exchange_data[i].quoteAsset = "USDT"
              /\ f.exchange_data[i].status = "TRADING"
        /\ TickerIndex(f, symbol) > 0
        /\ Notional(f, symbol) >= f.min_vol}

\* a ranks ahead of b: larger notional, or the same and earlier in the ticker
\* response
RanksAhead(f, a, b) ==
    \/ Notional(f, a) > Notional(f, b)
    \/ /\ Notional(f, a) = Notional(f, b)
       /\ TickerIndex(f, a) < TickerIndex(f, b)

Selected == cframe.method = "get_active_symbols" /\ cframe.returned

\* C27: for every pair of responses the list returned has at most N symbols,
\* without repetition, each of them perpetual, quoted in USDT, trading and
\* with a 24h notional at or above the threshold; it has N symbols whenever N
\* instruments satisfy the predicate; every instrument satisfying the
\* predicate and left out ranks behind every symbol returned; the list is in
\* descending order of notional, equal notionals in the order of the ticker
\* response.
C27_TopNDescendingStable ==
    Selected =>
        LET top_symbols == cframe.top_symbols
            eligible == Eligible(cframe)
        IN  /\ Len(top_symbols) = Min(cframe.top_n, Cardinality(eligible))
            /\ \A i \in DOMAIN top_symbols : top_symbols[i] \in eligible
            /\ \A i, j \in DOMAIN top_symbols :
                  i < j => /\ top_symbols[i] # top_symbols[j]
                           /\ RanksAhead(cframe, top_symbols[i], top_symbols[j])
            /\ \A i \in DOMAIN top_symbols :
                  \A left_out \in eligible \ Elements(top_symbols) :
                      RanksAhead(cframe, top_symbols[i], left_out)
            /\ collector.symbols = Elements(top_symbols)

\* two of three instruments returned: CCCUSDT ahead of AAAUSDT at the same
\* notional, because its ticker comes first; BBBUSDT, with the largest
\* notional, is a quarterly contract
C27_Witness ==
    /\ Selected
    /\ cframe.top_n = 2
    /\ cframe.top_symbols = <<"CCCUSDT", "AAAUSDT">>
    /\ Notional(cframe, "CCCUSDT") = MIN_VOL_24H
    /\ Notional(cframe, "AAAUSDT") = MIN_VOL_24H
    /\ Notional(cframe, "BBBUSDT") > MIN_VOL_24H
    /\ \E i \in DOMAIN cframe.exchange_data :
          /\ cframe.exchange_data[i].symbol = "BBBUSDT"
          /\ cframe.exchange_data[i].contractType # "PERPETUAL"

----------------------------------------------------------------------------
(* The backfill (src/ws_collector.py, fetch_initial_klines), step by step.   *)
(* The frame holds the argument symbols, the number of symbols the first     *)
(* loop has checked, symbols_to_fetch, the number of symbols the second loop *)
(* has handled, the symbols a klines request was made for, in order, and     *)
(* the symbols whose step raised.                                            *)

\* variant: every symbol is put on the list
NeedsHistoryAlways(current_count) == current_count >= 0

\* if current_count < self.config["HISTORY_KLINES"]
NeedsHistory(current_count) == current_count < HISTORY_KLINES

\* the rows a klines request with limit HISTORY_KLINES delivers for a symbol,
\* as insert_kline stores them
PageRows(symbol, n) ==
    {KlineRow(symbol, HistoryCandle("flat", i), now) : i \in 1..n}

\* db.insert_kline for every row of a set: INSERT OR REPLACE
RECURSIVE InsertAll(_, _)
InsertAll(K, rows) ==
    IF rows = {} THEN K
    ELSE LET row == CHOOSE r \in rows : TRUE
         IN  InsertAll(InsertOrReplaceKline(K, row), rows \ {row})

InBackfill == cframe.method = "fetch_initial_klines" /\ ~cframe.returned

\* for symbol in symbols: current_count = db.get_symbol_kline_count(symbol);
\* after the loop: if not symbols_to_fetch: return
fi_check ==
    /\ Top = "fi_check"
    /\ IF cframe.checked < Len(cframe.symbols)
       THEN LET symbol == cframe.symbols[cframe.checked + 1]
                current_count == KlineCount(klines, symbol)
            IN  /\ cframe' = [cframe EXCEPT
                      !.checked = cframe.checked + 1,
                      !.symbols_to_fetch =
                          IF NeedsHistory(current_count)
                          THEN Append(cframe.symbols_to_fetch, symbol)
                          ELSE cframe.symbols_to_fetch]
                /\ UNCHANGED cstack
       ELSE IF cframe.symbols_to_fetch = <<>>
            THEN /\ cframe' = [cframe EXCEPT !.returned = TRUE]
                 /\ Replace("connect")
            ELSE /\ Replace("fi_fetch")
                 /\ UNCHANGED cframe
    /\ UNCHANGED <<klines, anomalies, now, db, ctor_max_age_hours,
                   last_cleanup_time, last_sweep_at, lock, pc, loc,
                   collector, detector, drun, manager>>

\* db.get_symbol_kline_count raises: the first loop has no try, the
\* exception reaches start(): except Exception: self.running = False
fi_check_fail ==
    /\ Top = "fi_check"
    /\ cframe.checked < Len(cframe.symbols)
    /\ cframe' = [cframe EXCEPT !.returned = TRUE]
    /\ collector' = [collector EXCEPT !.running = FALSE]
    /\ Pop
    /\ UNCHANGED <<klines, anomalies, now, db, ctor_max_age_hours,
                   last_cleanup_time, last_sweep_at, lock, pc, loc,
                   detector, drun, manager>>

\* the symbol the second loop is at
FetchSymbol == cframe.symbols_to_fetch[cframe.idx + 1]

\* one round of the second loop: the request succeeds and every row of the
\* page is stored; after the last round: db.get_symbol_stats()
fi_fetch ==
    /\ Top = "fi_fetch"
    /\ IF cframe.idx < Len(cframe.symbols_to_fetch)
       THEN /\ klines' = InsertAll(klines, PageRows(FetchSymbol, HISTORY_KLINES))
            /\ cframe' = [cframe EXCEPT
                  !.idx = cframe.idx + 1,
                  !.requested = Append(cframe.requested, FetchSymbol)]
            /\ UNCHANGED cstack
       ELSE /\ Replace("fi_stats")
            /\ UNCHANGED <<klines, cframe>>
    /\ UNCHANGED <<anomalies, now, db, ctor_max_age_hours,
                   last_cleanup_time, last_sweep_at, lock, pc, loc,
                   collector, detector, drun, manager>>

\* variant: the exception of a round leaves fetch_initial_klines and reaches
\* start()
fi_fetch_abort ==
    /\ Top = "fi_fetch"
    /\ cframe.idx < Len(cframe.symbols_to_fetch)
    /\ cframe' = [cframe EXCEPT
          !.requested = Append(cframe.requested, FetchSymbol),
          !.failed = cframe.failed \cup {FetchSymbol},
          !.returned = TRUE]
    /\ collector' = [collector EXCEPT !.running = FALSE]
    /\ Pop
    /\ UNCHANGED <<klines, anomalies, now, db, ctor_max_age_hours,
                   last_cleanup_time, last_sweep_at, lock, pc, loc,
                   detector, drun, manager>>

\* one round of the second loop raises: the request fails (nothing is
\* stored), or a row cannot be converted or stored after the rows before it
\* were (half a page is); except Exception: continue
fi_fetch_fail ==
    /\ Top = "fi_fetch"
    /\ cframe.idx < Len(cframe.symbols_to_fetch)
    /\ \E stored \in {0, HISTORY_KLINES \div 2} :
          klines' = InsertAll(klines, PageRows(FetchSymbol, stored))
    /\ cframe' = [cframe EXCEPT
          !.idx = cframe.idx + 1,
          !.requested = Append(cframe.requested, FetchSymbol),
          !.failed = cframe.failed \cup {FetchSymbol}]
    /\ UNCHANGED <<anomalies, now, db, ctor_max_age_hours,
                   last_cleanup_time, last_sweep_at, lock, pc, loc,
                   collector, cstack, detector, drun, manager>>

\* stats = db.get_symbol_stats(); fetch_initial_klines returns and start()
\* goes on to create the connection
fi_stats ==
    /\ Top = "fi_stats"
    /\ cframe' = [cframe EXCEPT !.returned = TRUE]
    /\ Replace("connect")
    /\ UNCHANGED <<klines, anomalies, now, db, ctor_max_age_hours,
                   last_cleanup_time, last_sweep_at, lock, pc, loc,
                   collector, detector, drun, manager>>

\* db.get_symbol_stats() raises, outside the try of the loop: the exception
\* reaches start()
fi_stats_fail ==
    /\ Top = "fi_stats"
    /\ cframe' = [cframe EXCEPT !.returned = TRUE]
    /\ collector' = [collector EXCEPT !.running = FALSE]
    /\ Pop
    /\ UNCHANGED <<klines, anomalies, now, db, ctor_max_age_hours,
                   last_cleanup_time, last_sweep_at, lock, pc, loc,
                   detector, drun, manager>>

----------------------------------------------------------------------------
(* SpecBackfill: start() has selected one or both symbols, in either order,  *)
(* and enters fetch_initial_klines.  A symbol has no stored rows, one row    *)
(* less than HISTORY_KLINES ("short") or HISTORY_KLINES rows that differ     *)
(* from the page a request would deliver ("zigzag").                         *)

SymbolLists == UNION {Orders(u) : u \in SUBSET Symbols \ {{}}}

BackfillHistories == [Symbols -> {"none", "short", "zigzag"}]

InitBackfill ==
    /\ \E hs \in BackfillHistories :
          klines = UNION {HistoryRows(sym, hs[sym]) : sym \in Symbols}
    /\ anomalies = {}
    /\ now = BootTime
    /\ \E c \in ScoreConfigs :
          /\ ctor_max_age_hours = c[1]
          /\ db = NewDatabase(c[1], c[2], c[3])
    /\ last_sweep_at = None
    /\ last_cleanup_time = 0
    /\ lock = NoLock
    /\ pc = [t \in Threads |-> "idle"]
    /\ loc = [t \in Threads |-> IdleLoc]
    /\ \E symbols \in SymbolLists :
          /\ collector = [NewCollector EXCEPT !.running = TRUE,
                                              !.symbols = Elements(symbols)]
          /\ cframe = [method |-> "fetch_initial_klines", symbols |-> symbols,
                       checked |-> 0, symbols_to_fetch |-> <<>>, idx |-> 0,
                       requested |-> <<>>, failed |-> {}, returned |-> FALSE]
    /\ cstack = <<"loop", "fi_check">>
    /\ detector = NewDetector
    /\ drun = IdleRun
    /\ manager = IdleManager

NextBackfill ==
    \/ fi_check
    \/ fi_check_fail
    \/ fi_fetch
    \/ fi_fetch_fail
    \/ fi_stats
    \/ fi_stats_fail
    \/ collector_open
    \/ collector_refused

SpecBackfill == InitBackfill /\ [][NextBackfill]_vars

\* the stored rows of a symbol
RowsOf(K, symbol) == {r \in K : r.symbol = symbol}

\* C29: while fetch_initial_klines runs, a klines request is made only for a
\* symbol that has fewer than HISTORY_KLINES stored rows at that moment, and
\* had fewer when it was counted; the rows of a symbol that has
\* HISTORY_KLINES rows or more are left as they are; no symbol is requested
\* twice.
C29_SufficientHistoryNotRefetched ==
    [][InBackfill =>
          /\ \A symbol \in Symbols :
                KlineCount(klines, symbol) >= HISTORY_KLINES =>
                    /\ RowsOf(klines', symbol) = RowsOf(klines, symbol)
                    /\ \/ cframe'.requested = cframe.requested
                       \/ cframe'.requested[Len(cframe'.requested)] # symbol
          /\ \A i, j \in DOMAIN cframe'.requested :
                i # j => cframe'.requested[i] # cframe'.requested[j]
          /\ \A i \in DOMAIN cframe'.symbols_to_fetch :
                i > cframe'.idx =>
                    KlineCount(klines', cframe'.symbols_to_fetch[i]) < HISTORY_KLINES]_vars

\* XYZUSDT had HISTORY_KLINES rows and was skipped: they are as before;
\* ABCUSDT had none and its page was requested and stored
C29_Witness ==
    /\ cframe.method = "fetch_initial_klines"
    /\ cframe.returned
    /\ Top = "connect"
    /\ cframe.symbols = <<"XYZUSDT", "ABCUSDT">>
    /\ cframe.requested = <<"ABCUSDT">>
    /\ RowsOf(klines, "XYZUSDT") = HistoryRows("XYZUSDT", "zigzag")
    /\ RowsOf(klines, "ABCUSDT") = PageRows("ABCUSDT", HISTORY_KLINES)

----------------------------------------------------------------------------
(* The handling of one feed message (src/ws_collector.py, on_message).  A    *)
(* message is its text as json.loads sees it: shape "garbage" does not       *)
(* parse, "no_data" has no "data" key, "data_null" has "data": null, "no_k"  *)
(* has no "k" under "data", "candle" has the payload k.  A field of k is     *)
(* absent or a JSON value: an integer, a string that spells a number, a      *)
(* string that does not ("text"), a number with a fraction (val is its       *)
(* integer part), a boolean (val 1 for true) or null.                        *)

JsonInt(n) == [type |-> "int", val |-> n]
JsonStr(n) == [type |-> "str", val |-> n]
Absent == [type |-> "absent", val |-> 0]

\* int(v) returns, for the values above: int(1.5) = 1, int(True) = 1,
\* int("12") = 12; int("abc") raises ValueError, int(None) TypeError, a
\* missing key KeyError
IntConverts(v) == v.type \in {"int", "str", "fraction", "bool"}

\* float(v) returns: float(True) = 1.0, float("1.5") = 1.5
FloatConverts(v) == v.type \in {"int", "str", "fraction", "bool"}

\* the fields on_message converts with int() and with float()
IntFields == {"t", "T", "n"}
FloatFields == {"o", "h", "l", "c", "v", "q"}

\* the payload k the exchange sends for a candle of a symbol: times and
\* trade count as integers, prices and volumes as strings
Payload(symbol, kd) ==
    [s |-> symbol,
     t |-> JsonInt(kd.open_time), T |-> JsonInt(kd.close_time),
     o |-> JsonStr(kd.open_price), h |-> JsonStr(kd.high_price),
     l |-> JsonStr(kd.low_price), c |-> JsonStr(kd.close_price),
     v |-> JsonStr(kd.volume), q |-> JsonStr(kd.quote_volume),
     n |-> JsonInt(kd.trades_count)]

\* the values a field is replaced by in a malformed message
Defects ==
    {Absent, [type |-> "text", val |-> 0], [type |-> "null", val |-> 0],
     [type |-> "bool", val |-> 1],
     [type |-> "fraction", val |-> LatestOpenTime]}

\* the try body of on_message runs to db.insert_kline
Convertible(message) ==
    /\ message.shape = "candle"
    /\ \A f \in IntFields : IntConverts(message.k[f])
    /\ \A f \in FloatFields : FloatConverts(message.k[f])

\* kline_record
KlineRecord(k) ==
    [open_time |-> k.t.val, close_time |-> k.T.val, open_price |-> k.o.val,
     high_price |-> k.h.val, low_price |-> k.l.val, close_price |-> k.c.val,
     volume |-> k.v.val, quote_volume |-> k.q.val, trades_count |-> k.n.val]

\* the messages explored: the candle of the latest or of the next bucket of
\* a subscribed symbol, as sent, or with the field t or c replaced, or a
\* message of another shape
FeedCandles ==
    {[HistoryCandle("flat", MIN_KLINES_REQUIRED) EXCEPT
        !.open_time = o, !.close_price = c]
       : o \in {LatestOpenTime, NextOpenTime}, c \in {100, 110}}

WellFormed ==
    {[shape |-> "candle", k |-> Payload(symbol, kd)]
       : symbol \in Symbols, kd \in FeedCandles}

Malformed ==
    {[shape |-> sh, k |-> Payload("ABCUSDT", HistoryCandle("flat", 1))]
       : sh \in {"garbage", "no_data", "data_null", "no_k"}}
    \cup {[shape |-> "candle",
           k |-> [Payload("ABCUSDT", HistoryCandle("flat", MIN_KLINES_REQUIRED))
                    EXCEPT ![f] = d]]
            : f \in {"t", "c"}, d \in Defects}

\* the number of messages explored
MaxMessages == 2

\* on_message(ws, message): json.loads or a .get on None raises, or the
\* payload is empty and the method returns, or a conversion raises, or the
\* record is built and db.insert_kline stores it or raises; except
\* Exception: print
feed_message ==
    /\ Top = "streaming"
    /\ collector.ws = "open"
    /\ \E message \in WellFormed \cup Malformed, store_ok \in BOOLEAN :
          LET stored == Convertible(message) /\ store_ok
          IN  /\ klines' = IF stored
                           THEN InsertOrReplaceKline(klines,
                                   KlineRow(message.k.s, KlineRecord(message.k), now))
                           ELSE klines
              /\ cframe' = [method |-> "on_message", message |-> message,
                            stored |-> stored,
                            raised |-> \/ message.shape \in {"garbage", "data_null"}
                                       \/ /\ message.shape = "candle"
                                          /\ ~stored,
                            handled |-> cframe.handled + 1]
    /\ cframe.handled < MaxMessages
    /\ UNCHANGED <<anomalies, now, db, ctor_max_age_hours,
                   last_cleanup_time, last_sweep_at, lock, pc, loc,
                   collector, cstack, detector, drun, manager>>

----------------------------------------------------------------------------
(* SpecFeed: the subscription for both symbols is open, the store is empty;  *)
(* up to MaxMessages messages arrive, the connection may be lost.            *)

InitFeed ==
    /\ klines = {}
    /\ anomalies = {}
    /\ now = BootTime
    /\ \E c \in ScoreConfigs :
          /\ ctor_max_age_hours = c[1]
          /\ db = NewDatabase(c[1], c[2], c[3])
    /\ last_sweep_at = None
    /\ last_cleanup_time = 0
    /\ lock = NoLock
    /\ pc = [t \in Threads |-> "idle"]
    /\ loc = [t \in Threads |-> IdleLoc]
    /\ collector = [NewCollector EXCEPT !.running = TRUE, !.ws = "open",
                                        !.symbols = Symbols]
    /\ cstack = <<"loop", "streaming">>
    /\ cframe = [method |-> "on_message",
                 message |-> [shape |-> "no_k",
                              k |-> Payload("ABCUSDT", HistoryCandle("flat", 1))],
                 stored |-> FALSE, raised |-> FALSE, handled |-> 0]
    /\ detector = NewDetector
    /\ drun = IdleRun
    /\ manager = IdleManager

NextFeed == feed_message \/ collector_lost

SpecFeed == InitFeed /\ [][NextFeed]_vars

\* a message was handled in this step
Handled == cframe'.handled = cframe.handled + 1

\* C31 (as claimed): a message that is not as the exchange sends it (it does
\* not parse, has no payload, or has a field missing or of another type), or
\* a store failure, causes no candle write and leaves the engine streaming
\* with running flag, symbol list and reconnect counter as they were; a
\* well-formed message handled afterwards without a store failure is written.
C31_MalformedMessageNotWritten ==
    [][Handled =>
          /\ (cframe'.message \in Malformed \/ ~cframe'.stored) => klines' = klines
          /\ Top' = "streaming" /\ collector' = collector
          /\ (cframe'.message \in WellFormed /\ ~cframe'.raised) =>
                \E r \in klines' :
                    /\ r.symbol = cframe'.message.k.s
                    /\ r.open_time = cframe'.message.k.t.val
                    /\ r.close_price = cframe'.message.k.c.val]_vars

----------------------------------------------------------------------------
(* The length guards of the scorer under a configured minimum window         *)
(* (src/anomaly_detector.py: config["MIN_KLINES_REQUIRED"], read by          *)
(* detect_anomalies and by analyze_symbol_anomaly).  The run record holds    *)
(* the configured value, the window read for one symbol and the result.      *)

\* the values of MIN_KLINES_REQUIRED explored, the configured one among them
MinWindowSizes == 1..8 \cup {MIN_KLINES_REQUIRED}

\* a window of n candles that close at 100 and 110 in turn, or at 100 and
\* last at 110, with a quote volume of 1 or, last, of last_volume
WindowOf(symbol, n, shape, last_volume) ==
    [i \in 1..n |->
        KlineRow(symbol,
                 [HistoryCandle("flat", 1) EXCEPT
                    !.open_time = LatestOpenTime - (n - i) * BucketSeconds * MsPerSecond,
                    !.close_time = LatestOpenTime - (n - i - 1) * BucketSeconds * MsPerSecond - 1,
                    !.close_price = IF \/ shape = "zigzag" /\ i % 2 = 0
                                       \/ shape = "spike" /\ i = n
                                    THEN 110 ELSE 100,
                    !.quote_volume = IF i = n THEN last_volume ELSE 1],
                 BootTime)]

\* hist_returns of a window
HistReturns(rows) == AllButLast(AbsReturns(rows))

\* klines = db.get_recent_klines(...); if len(klines) < MIN_KLINES_REQUIRED:
\* continue
window_check ==
    /\ drun.pc = "wd_check"
    /\ drun' = [drun EXCEPT !.pc = IF Len(drun.klines) < drun.min_klines_required
                                   THEN "wd_skipped" ELSE "wd_analyze"]
    /\ UNCHANGED <<klines, anomalies, now, db, ctor_max_age_hours,
                   last_cleanup_time, last_sweep_at, lock, pc, loc,
                   collector, cstack, cframe, detector, manager>>

\* result = self.analyze_symbol_anomaly(symbol, klines, volume_24h)
window_analyze ==
    /\ drun.pc = "wd_analyze"
    /\ LET result == IF Len(drun.klines) < drun.min_klines_required THEN NoResult
                     ELSE Analysis(drun.symbol, drun.klines, 0)
       IN  drun' = [drun EXCEPT !.result = result,
                                !.pc = IF result = NoResult THEN "wd_skipped"
                                       ELSE "wd_insert"]
    /\ UNCHANGED <<klines, anomalies, now, db, ctor_max_age_hours,
                   last_cleanup_time, last_sweep_at, lock, pc, loc,
                   collector, cstack, cframe, detector, manager>>

\* if result: db.insert_anomaly(result)
window_insert ==
    /\ drun.pc = "wd_insert"
    /\ anomalies' = InsertOrReplaceAnomaly(anomalies, AnomalyRow(drun.result, now))
    /\ drun' = [drun EXCEPT !.pc = "wd_done"]
    /\ UNCHANGED <<klines, now, db, ctor_max_age_hours,
                   last_cleanup_time, last_sweep_at, lock, pc, loc,
                   collector, cstack, cframe, detector, manager>>

InitWindow ==
    /\ anomalies = {}
    /\ now = BootTime
    /\ \E c \in ScoreConfigs :
          /\ ctor_max_age_hours = c[1]
          /\ db = NewDatabase(c[1], c[2], c[3])
    /\ last_sweep_at = None
    /\ last_cleanup_time = 0
    /\ lock = NoLock
    /\ pc = [t \in Threads |-> "idle"]
    /\ loc = [t \in Threads |-> IdleLoc]
    /\ collector = NewCollector
    /\ cstack = <<>>
    /\ cframe = IdleFrame
    /\ detector = [NewDetector EXCEPT !.running = TRUE]
    /\ manager = IdleManager
    /\ \E m \in MinWindowSizes, n \in 0..(MIN_KLINES_REQUIRED + 1),
          shape \in {"zigzag", "spike"}, last_volume \in Volumes :
          /\ n <= m + 2
          /\ drun = [pc |-> "wd_check", symbol |-> "ABCUSDT",
                     min_klines_required |-> m,
                     klines |-> WindowOf("ABCUSDT", n, shape, last_volume),
                     result |-> NoResult]
          /\ klines = {drun.klines[i] : i \in 1..n}

NextWindow == window_check \/ window_analyze \/ window_insert

SpecWindow == InitWindow /\ [][NextWindow]_vars

\* C32 (as claimed): under every configured minimum window size, a symbol
\* gets a result, and a row, only if the returns before the latest one number
\* at least 5.
C32_ScoredOnlyWithFiveHistoryReturns ==
    drun.pc \in {"wd_insert", "wd_done"} => Len(HistReturns(drun.klines)) >= MinReturns

----------------------------------------------------------------------------
(* The transaction of cleanup_old_data, statement by statement               *)
(* (src/database.py).  The connection of the sweeping thread holds its own   *)
(* view of the two tables, in cframe: a DELETE changes the view, commit      *)
(* writes the view to the database, closing the connection without a commit  *)
(* drops it.  The other connections read the database.                       *)

Sweeper == "ingest"

\* conn = self.get_connection(), inside `with self.lock`, before the try
sweep_connect ==
    /\ pc[Sweeper] = "cl_txn"
    /\ cframe' = [method |-> "cleanup_old_data", klines |-> klines,
                  anomalies |-> anomalies, deleted_counts |-> <<>>]
    /\ Goto(Sweeper, "sw_klines")
    /\ UNCHANGED <<klines, anomalies, now, db, ctor_max_age_hours,
                   last_cleanup_time, last_sweep_at, lock, loc,
                   collector, cstack, detector, drun, manager>>

\* sqlite3.connect raises: the with statement releases the lock and the
\* exception leaves cleanup_old_data
sweep_connect_fail ==
    /\ pc[Sweeper] = "cl_txn"
    /\ lock' = NoLock
    /\ EndCall(Sweeper, "raised")
    /\ UNCHANGED <<klines, anomalies, now, db, ctor_max_age_hours,
                   last_cleanup_time, last_sweep_at>>
    /\ UNCHANGED engineVars

\* variant: the connection is in autocommit mode, the DELETE is written to
\* the database at once
sweep_delete_klines_autocommit ==
    /\ pc[Sweeper] = "sw_klines"
    /\ LET kept == DeleteAgedKlines(cframe.klines, loc[Sweeper].cutoff)
       IN  /\ cframe' = [cframe EXCEPT
                            !.klines = kept,
                            !.deleted_counts =
                                <<Cardinality(cframe.klines) - Cardinality(kept)>>]
           /\ klines' = kept
    /\ Goto(Sweeper, "sw_excess")
    /\ UNCHANGED <<anomalies, now, db, ctor_max_age_hours,
                   last_cleanup_time, last_sweep_at, lock, loc,
                   collector, cstack, detector, drun, manager>>

\* DELETE FROM klines WHERE created_at < ?; deleted_counts['klines']
sweep_delete_klines ==
    /\ pc[Sweeper] = "sw_klines"
    /\ LET kept == DeleteAgedKlines(cframe.klines, loc[Sweeper].cutoff)
       IN  cframe' = [cframe EXCEPT
                        !.klines = kept,
                        !.deleted_counts =
                            <<Cardinality(cframe.klines) - Cardinality(kept)>>]
    /\ Goto(Sweeper, "sw_excess")
    /\ UNCHANGED <<klines, anomalies, now, db, ctor_max_age_hours,
                   last_cleanup_time, last_sweep_at, lock, loc,
                   collector, cstack, detector, drun, manager>>

\* if self.max_klines_per_symbol > 0: DELETE FROM klines WHERE id IN (...)
sweep_delete_excess ==
    /\ pc[Sweeper] = "sw_excess"
    /\ cframe' = [cframe EXCEPT
                    !.klines = DeleteExcessKlines(cframe.klines,
                                                  db.max_klines_per_symbol)]
    /\ Goto(Sweeper, "sw_anomalies")
    /\ UNCHANGED <<klines, anomalies, now, db, ctor_max_age_hours,
                   last_cleanup_time, last_sweep_at, lock, loc,
                   collector, cstack, detector, drun, manager>>

\* DELETE FROM anomalies WHERE created_at < ?; deleted_counts['anomalies']
sweep_delete_anomalies ==
    /\ pc[Sweeper] = "sw_anomalies"
    /\ LET kept == DeleteAgedAnomalies(cframe.anomalies, loc[Sweeper].cutoff)
       IN  cframe' = [cframe EXCEPT
                        !.anomalies = kept,
                        !.deleted_counts =
                            Append(cframe.deleted_counts,
                                   Cardinality(cframe.anomalies) - Cardinality(kept))]
    /\ Goto(Sweeper, "sw_commit")
    /\ UNCHANGED <<klines, anomalies, now, db, ctor_max_age_hours,
                   last_cleanup_time, last_sweep_at, lock, loc,
                   collector, cstack, detector, drun, manager>>

InSweepTransaction == pc[Sweeper] \in {"sw_klines", "sw_excess", "sw_anomalies", "sw_commit"}

\* conn.commit(); return deleted_counts; the connection is closed and the
\* lock released
sweep_commit ==
    /\ pc[Sweeper] = "sw_commit"
    /\ klines' = cframe.klines
    /\ anomalies' = cframe.anomalies
    /\ last_sweep_at' = now
    /\ lock' = NoLock
    /\ Goto(Sweeper, "idle")
    /\ loc' = [loc EXCEPT ![Sweeper] =
                 [IdleLoc EXCEPT !.status = "returned",
                                 !.ret = cframe.deleted_counts]]
    /\ cframe' = IdleFrame
    /\ UNCHANGED <<now, db, ctor_max_age_hours, last_cleanup_time,
                   collector, cstack, detector, drun, manager>>

\* a DELETE or the commit raises: except Exception: return {}; finally:
\* conn.close() drops what was not committed
sweep_fail ==
    /\ InSweepTransaction
    /\ lock' = NoLock
    /\ EndCall(Sweeper, "returned")
    /\ cframe' = IdleFrame
    /\ UNCHANGED <<klines, anomalies, now, db, ctor_max_age_hours,
                   last_cleanup_time, last_sweep_at,
                   collector, cstack, detector, drun, manager>>

----------------------------------------------------------------------------
(* SpecSweep: the tables hold rows stored two hours or just before the       *)
(* sweep; the age limit is one hour, the cap SmallCap rows per symbol.  One  *)
(* thread calls cleanup_old_data; another reads either table at any moment.  *)

SweepKlines ==
    {KlineRow(u.symbol, u.kline_data, t) :
        u \in FullKlineUpdates, t \in {BootTime - 2 * SecondsPerHour, BootTime}}

SweepAnomalies ==
    {AnomalyRow(ad, t) : ad \in AnomalyData,
                         t \in {BootTime - 2 * SecondsPerHour, BootTime}}

Reader == "score"

InitSweep ==
    /\ klines \in {K \in SUBSET SweepKlines :
                     \A r, q \in K : KlineConflict(r, q) => r = q}
    /\ anomalies \in {A \in SUBSET SweepAnomalies : Cardinality(A) <= 1}
    /\ now = BootTime
    /\ \E c \in ConcConfigs :
          /\ ctor_max_age_hours = c[1]
          /\ db = NewDatabase(c[1], c[2], c[3])
    /\ last_sweep_at = None
    /\ last_cleanup_time = 0
    /\ lock = NoLock
    /\ pc = [t \in Threads |-> "idle"]
    /\ loc = [t \in Threads |-> IdleLoc]
    /\ EngineInit

\* the one call of cleanup_old_data explored
sweep_call ==
    /\ loc[Sweeper].status = "none"
    /\ call_cleanup_old_data(Sweeper)

NextSweep ==
    \/ sweep_call
    \/ cleanup_old_data_cutoff(Sweeper)
    \/ cleanup_old_data_lock(Sweeper)
    \/ sweep_connect
    \/ sweep_connect_fail
    \/ sweep_delete_klines
    \/ sweep_delete_excess
    \/ sweep_delete_anomalies
    \/ sweep_commit
    \/ sweep_fail
    \/ \E symbol \in Symbols : call_get_recent_klines(Reader, symbol, MaxLimit)
    \/ call_get_recent_anomalies(Reader, "15m", MaxHours, MaxLimit)

SpecSweep == InitSweep /\ [][NextSweep]_vars

\* the sweep ends in this step without a commit
SweepEndsUncommitted ==
    /\ pc[Sweeper] \in {"cl_txn", "sw_klines", "sw_excess", "sw_anomalies", "sw_commit"}
    /\ pc'[Sweeper] = "idle"
    /\ last_sweep_at' = last_sweep_at

\* the database changes in one step from the tables before the sweep to the
\* tables after all its DELETEs, or not at all
SweepAtomic ==
    \/ klines' = klines /\ anomalies' = anomalies
    \/ /\ klines' = CleanupKlines(klines, loc[Sweeper].cutoff, db.max_klines_per_symbol)
       /\ anomalies' = DeleteAgedAnomalies(anomalies, loc[Sweeper].cutoff)
       /\ loc'[Sweeper].status = "returned"

----------------------------------------------------------------------------
(* SpecRerun: scoring runs over a store that the ingestion thread may        *)
(* extend between them, with process restarts in between: a restart builds   *)
(* a new Database (last_cleanup_time = 0, no thread inside a call) and a     *)
(* new AnomalyDetector over the same database file.                          *)

RerunHistories ==
    {hs \in [Symbols -> Histories \cup {"none"}] :
        /\ hs["ABCUSDT"] \in {"spike", "short"}
        /\ hs["XYZUSDT"] = "zigzag"}

InitRerun ==
    /\ \E hs \in RerunHistories :
          klines = UNION {HistoryRows(sym, hs[sym]) : sym \in Symbols}
    /\ anomalies = {}
    /\ now = BootTime
    /\ \E c \in ScoreConfigs :
          /\ ctor_max_age_hours = c[1]
          /\ db = NewDatabase(c[1], c[2], c[3])
    /\ last_sweep_at = None
    /\ last_cleanup_time = 0
    /\ lock = NoLock
    /\ pc = [t \in Threads |-> "idle"]
    /\ loc = [t \in Threads |-> IdleLoc]
    /\ EngineInit

\* the process ends between two runs and is started again (the count of the
\* runs explored is kept)
process_restart ==
    /\ drun.pc = "idle"
    /\ drun.runs > 0
    /\ \A t \in Threads : pc[t] = "idle"
    /\ \/ drun # [IdleRun EXCEPT !.runs = drun.runs]
       \/ \E t \in Threads : loc[t] # IdleLoc
    /\ drun' = [IdleRun EXCEPT !.runs = drun.runs]
    /\ detector' = NewDetector
    /\ loc' = [t \in Threads |-> IdleLoc]
    /\ last_cleanup_time' = 0
    /\ UNCHANGED <<klines, anomalies, now, db, ctor_max_age_hours,
                   last_sweep_at, lock, pc, collector, cstack, cframe, manager>>

NextRerun ==
    \/ ScoreTick
    \/ call_detect_anomalies
    \/ DetectStep
    \/ AnomalyStep(ScoreThread)
    \/ maybe_cleanup(ScoreThread)
    \/ ScoreIngest("ingest")
    \/ process_restart

SpecRerun == InitRerun /\ [][NextRerun]_vars

\* the keys and the scores of the anomaly table
KeysAndScores(A) == {<<AnomalyKey(r), r.anomaly_score>> : r \in A}

----------------------------------------------------------------------------
(* Scoring: the composite tag *)

\* the component scores of a result, from the values it carries
PriceScore(r) ==
    Max(r.price_zscore - PRICE_Z_THRESHOLD, 0)
    + Max(r.price_percentile - PRICE_PERCENTILE * Hundredths, 0) \div 10
VolumeScore(r) == Max(Abs(r.volume_zscore) - VOLUME_Z_THRESHOLD, 0)
VolatilityScore(r) == Max(r.volatility_zscore - VOLATILITY_Z_THRESHOLD, 0)

\* weights in hundredths, the configured ones (40, 30, 30) among them, and
\* thresholds in hundredths
WeightChoices == {0, WEIGHT_VOLUME, WEIGHT_PRICE, Hundredths}
ThresholdChoices == {1, ANOMALY_SCORE_THRESHOLD}

\* anomaly_score under the weights w
CompositeScore(w, r) ==
    (w[1] * PriceScore(r) + w[2] * VolumeScore(r) + w[3] * VolatilityScore(r))
        \div Hundredths

AnyTestFired(r) == PriceTest(r) \/ VolumeTest(r) \/ VolatilityTest(r)

NoCompositeTag(r) ==
    /\ ~Contains(r.anomaly_reasons, CompositeTag)
    /\ r.anomaly_score = CompositeScore(<<WEIGHT_PRICE, WEIGHT_VOLUME, WEIGHT_VOLATILITY>>, r)
    /\ r.anomaly_score > 0 => AnyTestFired(r)
    /\ ~AnyTestFired(r) =>
          \A w \in WeightChoices \X WeightChoices \X WeightChoices,
             threshold \in ThresholdChoices :
              CompositeScore(w, r) < threshold

\* C35: in every result the scorer produces the score is positive only if
\* the price, the volume or the volatility test fired; without one of them
\* the weighted sum stays below every positive threshold under all
\* non-negative weights; no result carries the composite tag.
C35_CompositeTagNeverEmitted ==
    /\ (drun.pc = "dt_analyze" /\ RunResult # NoResult) => NoCompositeTag(RunResult)
    /\ (drun.pc = "dt_insert" /\ Upserting) => NoCompositeTag(WrittenResult)

\* a run is writing a result whose score is at the composite threshold or
\* above: the branch of the composite tag is entered, with the tag of the
\* volume test already there and the price test not fired
C35_Witness ==
    /\ drun.pc = "dt_insert"
    /\ Upserting
    /\ WrittenResult.anomaly_score >= ANOMALY_SCORE_THRESHOLD
    /\ Contains(WrittenResult.anomaly_reasons, VolumeTag)
    /\ ~PriceTest(WrittenResult)

----------------------------------------------------------------------------
(* SpecInterval: the two writers of SpecConc over a store whose size cap   *)
(* and per-symbol cap are switched off (DATABASE_CONFIG values of 0), so   *)
(* that the elapsed interval is the only test of maybe_cleanup that can    *)
(* hold.                                                                   *)

IntervalOnly(d) == [d EXCEPT !.max_db_size_mb = 0, !.max_klines_per_symbol = 0]

InitInterval ==
    /\ klines = {}
    /\ anomalies = {}
    /\ now = BootTime
    /\ ctor_max_age_hours = 1
    /\ db = IntervalOnly(NewDatabase(1, TRUE, 0))
    /\ last_sweep_at = BootTime
    /\ last_cleanup_time = 0
    /\ lock = NoLock
    /\ pc = [t \in Threads |-> "idle"]
    /\ loc = [t \in Threads |-> IdleLoc]
    /\ EngineInit

NextInterval ==
    \/ Tick
    \/ \E t \in ConcThreads : ConcCall(t)
    \/ \E t \in ConcThreads : Step(t)

SpecInterval == InitInterval /\ [][NextInterval]_vars

\* thread t has run the sweep its write triggered and has not yet assigned
\* last_cleanup_time
SweptUnrecorded(t) == pc[t] = "mc_set" /\ loc[t].swept

\* the due-checks of t and u fell into the same interval
SameInterval(t, u) ==
    /\ loc[t].current_time - loc[u].current_time < db.cleanup_interval
    /\ loc[u].current_time - loc[t].current_time < db.cleanup_interval

\* C36: a sweep that a write triggered was due when it is recorded, that is
\* the interval had elapsed since the last recorded sweep, and no two writers
\* have both swept for due-checks that fell into the same interval.
C36_AtMostOneSweepPerInterval ==
    /\ \A t \in ConcThreads :
          SweptUnrecorded(t) => IntervalDue(loc[t].current_time)
    /\ \A t, u \in ConcThreads :
          (t # u /\ SweptUnrecorded(t) /\ SweptUnrecorded(u)) => ~SameInterval(t, u)

----------------------------------------------------------------------------
(* SpecConcLive: the two writers of SpecConc under fair scheduling. A      *)
(* thread that can take a step of a store method eventually takes one; a   *)
(* thread that waits for the mutex gets it if it is free again and again.  *)
(* The calls themselves and the clock are not forced.                      *)

\* the step that takes self.lock
LockStep(t) ==
    \/ insert_kline_lock(t)
    \/ insert_anomaly_lock(t)
    \/ cleanup_old_data_lock(t)

\* the clock of this specification moves within LiveHours hours of the start
LiveHours == 1
LiveInstants == {BootTime + h * SecondsPerHour : h \in 0..LiveHours}

TickLive ==
    /\ \E t2 \in LiveInstants : t2 > now /\ now' = t2
    /\ UNCHANGED <<klines, anomalies, db, ctor_max_age_hours, last_cleanup_time,
                   last_sweep_at, lock, pc, loc>>
    /\ UNCHANGED engineVars

NextConcLive ==
    \/ TickLive
    \/ \E t \in ConcThreads : ConcCall(t)
    \/ \E t \in ConcThreads : Step(t)

SpecConcLive ==
    /\ InitConc
    /\ [][NextConcLive]_vars
    /\ \A t \in ConcThreads : WF_vars(Step(t)) /\ SF_vars(LockStep(t))

\* a thread inside a store method can take its next step, or it waits for a
\* mutex that a thread inside a transaction holds
CanProceed(t) ==
    \/ pc[t] = "idle"
    \/ AtLock(t) /\ lock = NoLock
    \/ AtLock(t) /\ lock \in ConcThreads \ {t} /\ InTransaction(lock)
    \/ ~AtLock(t) /\ ENABLED Step(t)

\* C37: no thread comes to a `with self.lock:` line holding the mutex, the
\* mutex is held exactly by a thread inside a transaction (it is released
\* on commit and on failure), no thread inside a store method is stuck,
\* and every write that started returns or raises.
C37_NoSelfDeadlockWritesComplete ==
    /\ [](\A t \in ConcThreads :
            /\ AtLock(t) => lock # t
            /\ lock = t <=> InTransaction(t)
            /\ CanProceed(t))
    /\ \A t \in ConcThreads : (pc[t] # "idle") ~> (pc[t] = "idle")

\* a write of the scoring thread waits for the mutex while the ingestion
\* thread, inside the sweep its own write triggered, holds it
C37_Witness ==
    /\ pc["score"] = "ia_lock"
    /\ pc["ingest"] = "cl_txn"
    /\ loc["ingest"].op = "insert_kline"
    /\ lock = "ingest"

----------------------------------------------------------------------------
(* The ingestion engine: one subscription at a time *)

\* the positions of start() between self.running = True and run_forever
StartSequence == {"start_set", "select", "backfill", "connect"}

\* the frames of the collector thread that are in a start sequence or hold a
\* subscription
ActiveFrames == {i \in DOMAIN cstack : cstack[i] \in StartSequence \cup {"streaming"}}

\* C38: of the calls of start() on the stack of the collector thread at
\* most one is in its start sequence or holds a subscription, and it is the
\* innermost one: every call below it is past its subscription, which is
\* closed, and waits for on_close to return. self.ws is open only while
\* that innermost call is in run_forever.
C38_AtMostOneSubscription ==
    /\ Cardinality(ActiveFrames) <= 1
    /\ \A i \in 1..(Len(cstack) - 1) :
          cstack[i] \in {"loop", "closed", "on_close_return"}
    /\ collector.ws = "open" => Top = "streaming"

\* stop() fell between the test of on_close and its start(): the start()
\* called from on_close went through and holds the subscription, inside the
\* close handler of the subscription that was lost
C38_Witness ==
    /\ Len(cstack) >= 4
    /\ cstack[2] = "closed"
    /\ cstack[3] = "on_close_return"
    /\ Top = "streaming"
    /\ collector.ws = "open"

----------------------------------------------------------------------------
(* The ingestion engine: the reconnect counter *)

\* the step of on_open
Opened == Top = "connect" /\ cstack' # cstack /\ Top' = "streaming"

\* the step of on_close that counts a reconnect
Counted == Top = "on_close_sleep" /\ cstack' # cstack

\* C39: the counter is 0 after every step that opens the connection and as
\* long as the collector thread is in run_forever with it; it changes only
\* by on_open, to 0, and by a counted connection loss, by one and only from
\* below the maximum; so it is the number of losses counted since the last
\* open and never exceeds max_reconnects.
C39_CounterResetOnOpen ==
    /\ [](collector.reconnect_count \in 0..max_reconnects)
    /\ [](Top = "streaming" => collector.reconnect_count = 0)
    /\ [][/\ Opened => collector'.reconnect_count = 0
          /\ collector'.reconnect_count # collector.reconnect_count =>
                \/ Opened
                \/ /\ Counted
                   /\ collector.reconnect_count < max_reconnects
                   /\ collector'.reconnect_count = collector.reconnect_count + 1]_vars

\* a connection has opened after losses had been counted: the counter is back
\* at 0 inside the close handler of the earlier subscription
C39_Witness ==
    /\ Top = "streaming"
    /\ collector.ws = "open"
    /\ collector.reconnect_count = 0
    /\ \E i \in DOMAIN cstack : cstack[i] = "on_close_return"

----------------------------------------------------------------------------
(* Scoring: a run without the 24h volumes *)

\* the run holds the {} that get_24h_volumes returns when its request failed
VolumesFailed ==
    /\ drun.pc \in {"dt_symbols", "dt_next", "dt_analyze", "dt_insert"}
    /\ drun.volumes_24h = {}

\* the value volumes_24h.get(symbol, 0) has when the ticker lists the symbol
ListedVolume == QuoteVolume24h(Symbols, "ABCUSDT")

\* C40: the step after get_24h_volumes is always the enumeration of the
\* symbols, in the same run; after a failed fetch the list is that of all
\* stored symbols, a symbol yields a result exactly if it does with the
\* volumes at hand, and the result handed to insert_anomaly has
\* quote_volume_24h = 0 and every other field as with the volumes.
C40_VolumeFailureDoesNotAbortRun ==
    /\ [][(drun.pc = "dt_volumes" /\ drun' # drun) =>
             /\ drun'.pc = "dt_symbols"
             /\ drun'.runs = drun.runs
             /\ drun'.errors = drun.errors]_vars
    /\ [][(VolumesFailed /\ drun.pc = "dt_symbols" /\ drun'.pc = "dt_next") =>
             Elements(drun'.todo) = {r.symbol : r \in klines}]_vars
    /\ []((VolumesFailed /\ drun.pc = "dt_analyze") =>
             (RunResult = NoResult <=>
                analyze_symbol_anomaly(drun.symbol, drun.klines, ListedVolume)
                   = NoResult))
    /\ []((VolumesFailed /\ drun.pc = "dt_insert" /\ Upserting) =>
             /\ WrittenResult.quote_volume_24h = 0
             /\ [WrittenResult EXCEPT !.quote_volume_24h = ListedVolume]
                   = analyze_symbol_anomaly(drun.symbol, drun.klines, ListedVolume))

\* after a failed fetch the run has written the result of one symbol and is
\* writing that of the next, an anomaly, with a 24h volume of 0
C40_Witness ==
    /\ VolumesFailed
    /\ drun.pc = "dt_insert"
    /\ Upserting
    /\ drun.total_processed >= 1
    /\ WrittenResult.quote_volume_24h = 0
    /\ WrittenResult.is_anomaly

====
